---- MODULE Spec2Model ----
(***************************************************************************)
(* Verification model of parts of LabOne Q:                                *)
(*   - the near-time compiler executor (NtCompilerExecutor), which         *)
(*     memoizes real-time compilations by the near-time parameters the     *)
(*     compilation actually read;                                          *)
(*   - event-list generation of LoopIterationSchedule, CaseSchedule and    *)
(*     EmptyBranch.                                                        *)
(***************************************************************************)
EXTENDS Integers, Sequences, FiniteSets, TLC

(***************************************************************************)
(* Bounds of the model                                                     *)
(***************************************************************************)
\* deepest nesting of near-time for-loops
MaxDepth == 2
\* number of real-time-section entries in one executor run
MaxRt == 3
\* largest max_events passed to generate_event_list
MaxEvents == 8
\* most children of a loop iteration
MaxChildren == 1
\* most sweep parameters of a loop
MaxParams == 1
\* calls of generate_event_list made on one node: for a loop, the number of
\* its iterations
NumIterations == 2
\* bits of the significand of a float
MantissaBits == 5
\* a float is a multiple of 2^-FracBits
FracBits == 5
\* most pulses of a waveform
MaxPulses == 2
\* most calls made on one signature
MaxSigCalls == 3
\* bits of the phase registers of the device
RegisterBits == 48
\* most node updates the devices send
MaxUpdates == 2
\* latest reading of the clock
MaxTime == 2
\* latest reading of the clock of the controller, in seconds
MaxClock == 24
\* CONNECT_CHECK_HOLDOFF, in seconds
CONNECT_CHECK_HOLDOFF == 10
\* timeout of the wait for the followers to be ready, in seconds
FollowersReadyTimeout == 2
\* timeout_s of the wait for the sequencers to be ready, in seconds
timeout_s == 10
\* latest reading of the clock during an upload, in seconds
MaxUploadTime == 11
\* most exponential filters of one signal
MaxExponentials == 2

\* near-time parameter names, and the value array each is swept over
Names == {"a", "b"}
SweepValues == [name \in Names |-> <<1, 2>>]
\* loop indices passed to for_loop_handler
Indices == {0, 1}
\* total_execution_time values a real-time compiler output may carry
Times == {1, 2}

\* Optional[...]: None is the empty tuple, a present value x is <<x>>
None == <<>>
Some(x) == <<x>>

\* an empty dict
EmptyDict == [k \in {} |-> 0]

VARIABLES
    \* ---- NtCompilerExecutor (neartime_execution.py) ----
    iteration_stack,                 \* IterationStack._stack
    compiler_output_by_param_values, \* dict: fingerprint -> compiler output
    last_compiler_output,            \* Optional[RealtimeCompilerOutput]
    required_parameters,             \* Optional[Set[str]]
    combined_compiler_output,        \* Optional[CombinedRealtimeCompilerOutput]
    failed,                          \* an AssertionError left rt_handler
    runLog,                          \* history: the RealtimeCompiler.run calls
    linkCalls,                       \* history: number of rt_linker calls
    lastLink,                        \* the rt_linker call of the latest handler call
    visits,                          \* history: number of rt_handler entries
    openLoops,                       \* history: the for_loop_handler calls that
                                     \* have not exited, with the stack each found
    \* ---- driver of the nested sweep scenario ----
    sweep_prog,                      \* the handler calls of the sweep, in order
    sweep_pos,                       \* the next call of sweep_prog
    \* ---- event-list generation (scheduler) ----
    ev_sched,                        \* the schedule node under generation
    ev_start,                        \* start of the node's first call
    ev_calls,                        \* arguments of the calls made so far
    ev_lists,                        \* the event list each call returned
    id_tracker,                      \* next value of the shared id iterator
    \* ---- signatures (signatures.py) ----
    signature,                       \* the PlaybackSignature being processed
    phase_resolution_range,          \* the resolution quantize_phase is called with
    sig_calls,                       \* the calls made on the signature so far
    wf_pair,                         \* two WaveformSignatures
    wf_digests,                      \* the stable_hash digest computed for each
    wf_suffixes,                     \* the signature_string suffix computed for each
    shifted,                         \* a second PlaybackSignature
    shifted_reduced,                 \* what reduce_signature_phase returned for it
    heap,                            \* the objects, by address
    heap_arg,                        \* address of the caller's PlaybackSignature
    heap_result,                     \* address reduce_signature_phase returned
    \* ---- DeviceZI oscillator allocation (device_zi.py) ----
    device_class,                    \* the class of the device object
    allocated_oscs,                  \* DeviceZI._allocated_oscs
    osc_last,                        \* the latest call, the list it found and
                                     \* the exception it raised
    \* ---- NodeMonitor and ResponseWaiter (zi_node_monitor.py) ----
    daq,                             \* per monitor and path: the updates the data
                                     \* server holds for the next poll
    sent,                            \* number of updates the devices sent
    nodes,                           \* NodeMonitor._nodes of each monitor
    conditions,                      \* ResponseWaiter._conditions
    wait_pc,                         \* position of wait_all
    wait_result,                     \* what wait_all returned
    wait_start,                      \* start, of wait_all
    wait_timeout,                    \* timeout, of wait_all
    now,                             \* the clock
    registered,                      \* history: the conditions at the call
    polled,                          \* history: per monitor and path, the values
                                     \* appended to the node
    polled_monitors,                 \* history: the monitors polled by wait_all
    checked_at,                      \* history: time of the latest timeout test
    \* ---- Controller.connect and disconnect (controller.py) ----
    clock,                           \* time.time()
    last_connect_check_ts,           \* Controller._last_connect_check_ts
    connect_last,                    \* the latest call: its name, its time and
                                     \* whether DeviceCollection.connect ran
    performed_check,                 \* history: time of the latest run of
                                     \* DeviceCollection.connect since the
                                     \* latest disconnect
    \* ---- Controller._execute_one_step (controller.py) ----
    links,                           \* per device: the numbers of its uplinks and
                                     \* of its downlinks
    step_pc,                         \* position in _execute_one_step
    step_log,                        \* the calls of batch_set and wait_all made
    \* ---- Controller._upload_awg_programs (controller.py) ----
    awg_data,                        \* per device: its upload items
    device_daq,                      \* per device: its data server
    upload_pc,                       \* position in _upload_awg_programs
    elf_node_settings,               \* per data server: the nodes of its batch
    elf_upload_conditions,           \* per data server: the ready nodes waited for
    wf_node_settings,                \* per data server: the nodes of its
                                     \* waveform batch
    upload_log,                      \* the calls of batch_set made
    upload_daq,                      \* per data server and ready node: the
                                     \* updates held for the next poll
    upload_sent,                     \* number of updates the devices sent
    upload_nodes,                    \* NodeMonitor._nodes of each data server
    upload_conditions,               \* ResponseWaiter._conditions
    upload_clock,                    \* time.time()
    upload_start,                    \* start, of wait_all
    upload_reported,                 \* history: the ready nodes of which the
                                     \* value 1 was polled
    upload_checked_at,               \* history: time of the latest timeout test
    \* ---- ConditionsChecker (zi_node_monitor.py) ----
    chk_daq,                         \* per monitor and path: the updates the data
                                     \* server holds for the next poll
    chk_sent,                        \* number of updates the devices sent
    chk_nodes,                       \* NodeMonitor._nodes of each monitor
    chk_conditions,                  \* ConditionsChecker._conditions: per
                                     \* monitor the pairs of path and expected
                                     \* value, in the order of the dict
    chk_result,                      \* what the latest check_all returned
    \* ---- adapt_precompensations (precompensation_helpers.py) ----
    precompensations,                \* per signal: None or its dict of filters
    signal_infos,                    \* dao.signal_info of each signal
    adapt_result,                    \* how adapt_precompensations ended
    precompensations_given,          \* history: the dict as it was passed
    \* ---- Match.add (section.py) ----
    match_children,                  \* the children list of the Match
    match_before,                    \* the children list before the last add
    match_arg,                       \* the object of the last add, or None
    match_raised,                    \* the last add raised LabOneQException
    \* ---- Controller._execute_compiled_impl (controller.py) ----
    run_parameters,                  \* the flags shut_down and disconnect
    exec_devices,                    \* the number of devices
    exec_checked,                    \* the number of devices check_errors was
                                     \* called on
    exec_pc,                         \* position in _execute_compiled_impl
    exec_pending,                    \* an exception waits for the end of finally
    exec_log,                        \* the calls made, each with its outcome
    \* ---- Controller._awg_compile (controller.py) ----
    compile_items,                   \* the compile items of awg_data, in the
                                     \* order of the two loops
    max_workers,                     \* LABONEQ_AWG_COMPILER_MAX_WORKERS or None
    compile_pc,                      \* position of the calling thread
    futures,                         \* per submitted worker: its state
    item_elf,                        \* per item: its elf, or None
    elf_writes                       \* the pairs of a worker and the item
                                     \* whose elf it has written

ntVars == <<iteration_stack, compiler_output_by_param_values,
            last_compiler_output, required_parameters,
            combined_compiler_output, failed, runLog, linkCalls, lastLink,
            visits, openLoops>>
sweepVars == <<sweep_prog, sweep_pos>>
evVars == <<ev_sched, ev_start, ev_calls, ev_lists, id_tracker>>
pairVars == <<shifted, shifted_reduced>>
heapVars == <<heap, heap_arg, heap_result>>
sigVars == <<signature, phase_resolution_range, sig_calls,
             wf_pair, wf_digests, wf_suffixes, pairVars, heapVars>>
oscVars == <<device_class, allocated_oscs, osc_last>>
waiterVars == <<daq, sent, nodes, conditions, wait_pc, wait_result, wait_start,
               wait_timeout, now, registered, polled, polled_monitors,
               checked_at>>
connVars == <<clock, last_connect_check_ts, connect_last, performed_check>>
ctlVars == <<oscVars, waiterVars, connVars>>
stepVars == <<links, step_pc, step_log>>
uploadVars == <<awg_data, device_daq, upload_pc, elf_node_settings, elf_upload_conditions, wf_node_settings, upload_log, upload_daq, upload_sent, upload_nodes, upload_conditions, upload_clock, upload_start, upload_reported, upload_checked_at>>
checkVars == <<chk_daq, chk_sent, chk_nodes, chk_conditions, chk_result>>
precompVars == <<precompensations, signal_infos, adapt_result, precompensations_given>>
matchVars == <<match_children, match_before, match_arg, match_raised>>
execVars == <<run_parameters, exec_devices, exec_checked, exec_pc, exec_pending, exec_log>>
compileVars == <<compile_items, max_workers, compile_pc, futures, item_elf, elf_writes>>
\* the variables of the models of single operations further below
otherVars == <<stepVars, uploadVars, checkVars, precompVars, matchVars, execVars, compileVars>>
\* what the actions on stepVars leave alone
StepFrame == <<ntVars, sweepVars, evVars, sigVars, ctlVars, uploadVars, checkVars, precompVars, matchVars, execVars, compileVars>>
\* what the actions on uploadVars leave alone
UploadFrame == <<ntVars, sweepVars, evVars, sigVars, ctlVars, stepVars, checkVars, precompVars, matchVars, execVars, compileVars>>
\* what the actions on checkVars leave alone
CheckFrame == <<ntVars, sweepVars, evVars, sigVars, ctlVars, stepVars, uploadVars, precompVars, matchVars, execVars, compileVars>>
\* what the actions on precompVars leave alone
PrecompFrame == <<ntVars, sweepVars, evVars, sigVars, ctlVars, stepVars, uploadVars, checkVars, matchVars, execVars, compileVars>>
\* what the actions on matchVars leave alone
MatchFrame == <<ntVars, sweepVars, evVars, sigVars, ctlVars, stepVars, uploadVars, checkVars, precompVars, execVars, compileVars>>
\* what the actions on execVars leave alone
ExecFrame == <<ntVars, sweepVars, evVars, sigVars, ctlVars, stepVars, uploadVars, checkVars, precompVars, matchVars, compileVars>>
\* what the actions on compileVars leave alone
CompileFrame == <<ntVars, sweepVars, evVars, sigVars, ctlVars, stepVars, uploadVars, checkVars, precompVars, matchVars, execVars>>
vars == <<ntVars, sweepVars, evVars, sigVars, ctlVars, otherVars>>

(***************************************************************************)
(* IterationStack                                                          *)
(***************************************************************************)
\* IterationStack.push
push(index, parameter_values) ==
    Append(iteration_stack,
           [index |-> index, parameter_values |-> parameter_values])

\* mutant: the oldest frame is removed
pop_outermost == Tail(iteration_stack)

\* IterationStack.pop
pop == SubSeq(iteration_stack, 1, Len(iteration_stack) - 1)

\* mutant: the indices are listed innermost first
nt_loop_indices_reversed ==
    [i \in 1..Len(iteration_stack) |->
       iteration_stack[Len(iteration_stack) + 1 - i].index]

\* IterationStack.nt_loop_indices
nt_loop_indices ==
    [i \in 1..Len(iteration_stack) |-> iteration_stack[i].index]

\* mutant: the value of the outermost frame that holds a name is kept
nt_parameter_values_outermost ==
    LET n == Len(iteration_stack)
        has(i, k) == k \in DOMAIN iteration_stack[i].parameter_values
        dom == UNION {DOMAIN iteration_stack[i].parameter_values : i \in 1..n}
    IN [k \in dom |->
          LET i == CHOOSE i \in 1..n :
                     has(i, k) /\ \A j \in 1..(i-1) : ~has(j, k)
          IN iteration_stack[i].parameter_values[k]]

\* IterationStack.nt_parameter_values: the frames' dicts merged in stack
\* order, so that an inner frame's value replaces an outer frame's
nt_parameter_values ==
    LET n == Len(iteration_stack)
        has(i, k) == k \in DOMAIN iteration_stack[i].parameter_values
        dom == UNION {DOMAIN iteration_stack[i].parameter_values : i \in 1..n}
    IN [k \in dom |->
          LET i == CHOOSE i \in 1..n :
                     has(i, k) /\ \A j \in (i+1)..n : ~has(j, k)
          IN iteration_stack[i].parameter_values[k]]

\* mutant: the value is written to the outermost frame
set_parameter_value_outermost(name, value) ==
    LET pv == iteration_stack[1].parameter_values
    IN [iteration_stack EXCEPT ![1].parameter_values =
          [k \in DOMAIN pv \cup {name} |-> IF k = name THEN value ELSE pv[k]]]

\* IterationStack.set_parameter_value
set_parameter_value(name, value) ==
    LET n == Len(iteration_stack)
        pv == iteration_stack[n].parameter_values
    IN [iteration_stack EXCEPT ![n].parameter_values =
          [k \in DOMAIN pv \cup {name} |-> IF k = name THEN value ELSE pv[k]]]

(***************************************************************************)
(* NtCompilerExecutor                                                      *)
(***************************************************************************)
\* the (name, value) pairs of the dict params whose name is in names
Restrict(params, names) ==
    {<<k, params[k]>> : k \in DOMAIN params \cap names}

\* mutant: the cache key is built from all current parameters
frozen_all_parameters(req) ==
    {<<k, nt_parameter_values[k]>> : k \in DOMAIN nt_parameter_values}

\* NtCompilerExecutor._frozen_required_parameters, for the required set req
frozen_required_parameters(req) ==
    {<<k, nt_parameter_values[k]>> : k \in DOMAIN nt_parameter_values \cap req}

\* no device object
OscIdle ==
    /\ device_class = "none"
    /\ allocated_oscs = <<>>
    /\ osc_last = None

\* no node monitor and no waiter
WaiterIdle ==
    /\ daq = <<>>
    /\ sent = 0
    /\ nodes = <<>>
    /\ conditions = <<>>
    /\ wait_pc = "none"
    /\ wait_result = None
    /\ wait_start = 0
    /\ wait_timeout = 0
    /\ now = 0
    /\ registered = <<>>
    /\ polled = <<>>
    /\ polled_monitors = {}
    /\ checked_at = 0

\* no controller
ConnIdle ==
    /\ clock = 0
    /\ last_connect_check_ts = None
    /\ connect_last = None
    /\ performed_check = None

\* no controller-side object
CtlIdle == OscIdle /\ WaiterIdle /\ ConnIdle

StepIdle ==
    /\ links = <<>>
    /\ step_pc = 0
    /\ step_log = <<>>

UploadIdle ==
    /\ awg_data = <<>>
    /\ device_daq = <<>>
    /\ upload_pc = "none"
    /\ elf_node_settings = <<>>
    /\ elf_upload_conditions = <<>>
    /\ wf_node_settings = <<>>
    /\ upload_log = <<>>
    /\ upload_daq = <<>>
    /\ upload_sent = 0
    /\ upload_nodes = <<>>
    /\ upload_conditions = <<>>
    /\ upload_clock = 0
    /\ upload_start = 0
    /\ upload_reported = {}
    /\ upload_checked_at = 0

CheckIdle ==
    /\ chk_daq = <<>>
    /\ chk_sent = 0
    /\ chk_nodes = <<>>
    /\ chk_conditions = <<>>
    /\ chk_result = None

PrecompIdle ==
    /\ precompensations = <<>>
    /\ signal_infos = <<>>
    /\ adapt_result = "none"
    /\ precompensations_given = <<>>

MatchIdle ==
    /\ match_children = <<>>
    /\ match_before = <<>>
    /\ match_arg = <<>>
    /\ match_raised = FALSE

ExecIdle ==
    /\ run_parameters = <<>>
    /\ exec_devices = 0
    /\ exec_checked = 0
    /\ exec_pc = "idle"
    /\ exec_pending = FALSE
    /\ exec_log = <<>>

CompileIdle ==
    /\ compile_items = <<>>
    /\ max_workers = <<>>
    /\ compile_pc = "idle"
    /\ futures = <<>>
    /\ item_elf = <<>>
    /\ elf_writes = {}

\* the models of single operations are idle, but for the one named
OtherIdleBut(own) ==
    /\ IF own = "step" THEN TRUE ELSE StepIdle
    /\ IF own = "upload" THEN TRUE ELSE UploadIdle
    /\ IF own = "check" THEN TRUE ELSE CheckIdle
    /\ IF own = "precomp" THEN TRUE ELSE PrecompIdle
    /\ IF own = "match" THEN TRUE ELSE MatchIdle
    /\ IF own = "exec" THEN TRUE ELSE ExecIdle
    /\ IF own = "compile" THEN TRUE ELSE CompileIdle

OtherIdle == OtherIdleBut("none")

\* NtCompilerExecutor.__init__
NtInit ==
    /\ iteration_stack = <<>>
    /\ compiler_output_by_param_values = EmptyDict
    /\ last_compiler_output = None
    /\ required_parameters = None
    /\ combined_compiler_output = None
    /\ failed = FALSE
    /\ runLog = <<>>
    /\ linkCalls = 0
    /\ lastLink = None
    /\ visits = 0
    /\ openLoops = <<>>

\* for_loop_handler, up to the yield
for_loop_enter(index) ==
    /\ iteration_stack' = push(index, EmptyDict)
    /\ openLoops' = Append(openLoops,
                           [index |-> index, entry |-> iteration_stack])
    /\ lastLink' = None
    /\ UNCHANGED <<compiler_output_by_param_values, last_compiler_output,
                   required_parameters, combined_compiler_output, failed,
                   runLog, linkCalls, visits>>

\* for_loop_handler, after the yield
for_loop_exit ==
    /\ iteration_stack' = pop
    /\ openLoops' = SubSeq(openLoops, 1, Len(openLoops) - 1)
    /\ lastLink' = None
    /\ UNCHANGED <<compiler_output_by_param_values, last_compiler_output,
                   required_parameters, combined_compiler_output, failed,
                   runLog, linkCalls, visits>>

\* set_sw_param_handler
set_sw_param_handler(name, value) ==
    /\ iteration_stack' = set_parameter_value(name, value)
    /\ lastLink' = None
    /\ UNCHANGED <<compiler_output_by_param_values, last_compiler_output,
                   required_parameters, combined_compiler_output, failed,
                   runLog, linkCalls, visits, openLoops>>

\* mutant: the cache is never consulted
cache_hit_never == FALSE

\* rt_handler, lines 110-125: the cache lookup
cache_hit ==
    /\ required_parameters # None
    /\ frozen_required_parameters(required_parameters[1])
          \in DOMAIN compiler_output_by_param_values

\* mutant: the reused output's execution time is not accumulated
rt_reuse_no_time ==
    LET requested_values == frozen_required_parameters(required_parameters[1])
        new_compiler_output == compiler_output_by_param_values[requested_values]
    IN /\ last_compiler_output' = Some(new_compiler_output)
       /\ lastLink' = None
       /\ UNCHANGED <<iteration_stack, compiler_output_by_param_values,
                      required_parameters, failed, runLog, linkCalls,
                      combined_compiler_output, openLoops>>

\* mutant: the cache hit clears the last compiler output
rt_reuse_clears_last ==
    /\ last_compiler_output' = None
    /\ combined_compiler_output' = combined_compiler_output
    /\ lastLink' = None
    /\ UNCHANGED <<iteration_stack, compiler_output_by_param_values,
                   required_parameters, failed, runLog, linkCalls,
                   openLoops>>

\* rt_handler, lines 116-125: reuse of the cached output
rt_reuse ==
    LET requested_values == frozen_required_parameters(required_parameters[1])
        new_compiler_output == compiler_output_by_param_values[requested_values]
    IN /\ last_compiler_output' = Some(new_compiler_output)
       /\ combined_compiler_output' =
            Some([combined_compiler_output[1] EXCEPT
                    !.total_execution_time =
                        @ + new_compiler_output.total_execution_time])
       /\ lastLink' = None
       /\ UNCHANGED <<iteration_stack, compiler_output_by_param_values,
                      required_parameters, failed, runLog, linkCalls,
                      openLoops>>

\* the output object RealtimeCompiler.run returns on its next call
compiler_output(time) ==
    [id |-> Len(runLog) + 1, total_execution_time |-> time]

\* rt_handler, lines 132-135: the required-parameter set after a compile
\* that queried the names in queries
required_after(queries) ==
    IF required_parameters = None THEN queries ELSE required_parameters[1]

\* mutant: the assertion is missing
queries_mismatch_never(queries) == FALSE

\* rt_handler, line 135: the assertion fails
queries_mismatch(queries) ==
    required_parameters # None /\ required_parameters[1] # queries

\* rt_handler, lines 128-135 when the assertion fails: the compile has run,
\* the AssertionError leaves the handler
rt_assert_fail(queries, time) ==
    /\ runLog' = Append(runLog,
          [fingerprint |-> Restrict(nt_parameter_values, required_after(queries)),
           queries |-> queries, out |-> compiler_output(time)])
    /\ failed' = TRUE
    /\ lastLink' = None
    /\ UNCHANGED <<iteration_stack, compiler_output_by_param_values,
                   last_compiler_output, required_parameters,
                   combined_compiler_output, linkCalls, openLoops>>

\* rt_handler, lines 128-160 past the assertion: the compile has run, required
\* is the required-parameter set from now on; cache insertion and linking
rt_record(queries, time, required) ==
    LET new_compiler_output == compiler_output(time)
        requested_values == frozen_required_parameters(required)
    IN /\ runLog' = Append(runLog,
             [fingerprint |-> Restrict(nt_parameter_values, required),
              queries |-> queries, out |-> new_compiler_output])
       /\ required_parameters' = Some(required)
       /\ compiler_output_by_param_values' =
            [f \in DOMAIN compiler_output_by_param_values
                     \cup {requested_values} |->
               IF f = requested_values THEN new_compiler_output
               ELSE compiler_output_by_param_values[f]]
       /\ IF combined_compiler_output = None
          THEN \* rt_linker.from_single_run
               /\ combined_compiler_output' =
                    Some([total_execution_time |->
                            new_compiler_output.total_execution_time])
               /\ lastLink' = Some([fn |-> "from_single_run",
                                    new |-> new_compiler_output,
                                    previous |-> None,
                                    indices |-> nt_loop_indices])
          ELSE \* rt_linker.merge_compiler_runs, then lines 154-156
               /\ combined_compiler_output' =
                    Some([combined_compiler_output[1] EXCEPT
                            !.total_execution_time =
                                @ + new_compiler_output.total_execution_time])
               /\ lastLink' = Some([fn |-> "merge_compiler_runs",
                                    new |-> new_compiler_output,
                                    previous |-> last_compiler_output,
                                    indices |-> nt_loop_indices])
       /\ linkCalls' = linkCalls + 1
       /\ last_compiler_output' = Some(new_compiler_output)
       /\ UNCHANGED <<iteration_stack, failed, openLoops>>

\* mutant: every compile stores its queries as the required-parameter set
rt_compile_overwrite(queries, time) == rt_record(queries, time, queries)

\* rt_handler, lines 127-160: compile, record, link.  queries is what
\* tracker.queries() returns and time the total_execution_time of the output
\* of RealtimeCompiler.run
rt_compile(queries, time) ==
    IF queries_mismatch(queries)
    THEN rt_assert_fail(queries, time)
    ELSE rt_record(queries, time, required_after(queries))

\* rt_handler, up to the yield (nothing follows the yield)
rt_handler(queries, time) ==
    /\ visits' = visits + 1
    /\ IF cache_hit THEN rt_reuse ELSE rt_compile(queries, time)

(***************************************************************************)
(* Any sequence of handler calls.  The interpreter calls                   *)
(* set_sw_param_handler inside a loop, with the value the swept array      *)
(* holds at the loop's index.                                              *)
(***************************************************************************)
ForLoopEnter ==
    /\ ~failed
    /\ Len(iteration_stack) < MaxDepth
    /\ \E index \in Indices : for_loop_enter(index)
    /\ UNCHANGED <<sweepVars, evVars, sigVars, ctlVars, otherVars>>

ForLoopExit ==
    /\ ~failed
    /\ Len(iteration_stack) > 0
    /\ for_loop_exit
    /\ UNCHANGED <<sweepVars, evVars, sigVars, ctlVars, otherVars>>

SetSwParam ==
    /\ ~failed
    /\ Len(iteration_stack) > 0
    /\ \E name \in Names :
          LET index == iteration_stack[Len(iteration_stack)].index
          IN set_sw_param_handler(name, SweepValues[name][index + 1])
    /\ UNCHANGED <<sweepVars, evVars, sigVars, ctlVars, otherVars>>

RtSection ==
    /\ ~failed
    /\ visits < MaxRt
    /\ \E queries \in SUBSET (DOMAIN nt_parameter_values), time \in Times :
          rt_handler(queries, time)
    /\ UNCHANGED <<sweepVars, evVars, sigVars, ctlVars, otherVars>>

\* no second signature
PairIdle ==
    /\ shifted = None
    /\ shifted_reduced = None

\* no object is allocated
HeapIdle ==
    /\ heap = <<>>
    /\ heap_arg = 0
    /\ heap_result = None

\* no signature is being processed
SigIdle ==
    /\ signature = None
    /\ phase_resolution_range = 1
    /\ sig_calls = <<>>
    /\ wf_pair = <<>>
    /\ wf_digests = <<>>
    /\ wf_suffixes = <<>>
    /\ PairIdle
    /\ HeapIdle

\* no schedule node is under generation
EvIdle ==
    /\ ev_sched = [kind |-> "none"]
    /\ ev_start = 0
    /\ ev_calls = <<>>
    /\ ev_lists = <<>>
    /\ id_tracker = 0

Init ==
    /\ NtInit
    /\ OtherIdle
    /\ CtlIdle
    /\ sweep_prog = <<>>
    /\ sweep_pos = 1
    /\ EvIdle
    /\ SigIdle

Next == ForLoopEnter \/ ForLoopExit \/ SetSwParam \/ RtSection

Spec == Init /\ [][Next]_vars

(***************************************************************************)
(* The nested near-time sweep: for every value of outer, for every value   *)
(* of inner, one real-time section                                         *)
(***************************************************************************)
Call(op, index, name) == [op |-> op, index |-> index, name |-> name]

\* the handler calls of one iteration of the inner loop
InnerIteration(inner, j) ==
    <<Call("enter", j, ""), Call("set", j, inner), Call("rt", 0, ""),
      Call("exit", 0, "")>>

\* the handler calls of one iteration of the outer loop
OuterIteration(outer, inner, i) ==
    <<Call("enter", i, ""), Call("set", i, outer)>>
       \o InnerIteration(inner, 0) \o InnerIteration(inner, 1)
       \o <<Call("exit", 0, "")>>

NestedSweep(outer, inner) ==
    OuterIteration(outer, inner, 0) \o OuterIteration(outer, inner, 1)

SweepCall == sweep_prog[sweep_pos]

SweepAt(op) ==
    /\ ~failed
    /\ sweep_pos <= Len(sweep_prog)
    /\ SweepCall.op = op
    /\ sweep_pos' = sweep_pos + 1
    /\ UNCHANGED <<sweep_prog, evVars, sigVars, ctlVars, otherVars>>

SweepDone == sweep_pos > Len(sweep_prog)

SweepForLoopEnter == SweepAt("enter") /\ for_loop_enter(SweepCall.index)

SweepForLoopExit == SweepAt("exit") /\ for_loop_exit

SweepSetSwParam ==
    /\ SweepAt("set")
    /\ set_sw_param_handler(SweepCall.name,
                            SweepValues[SweepCall.name][SweepCall.index + 1])

SweepRtSection ==
    /\ SweepAt("rt")
    /\ \E queries \in SUBSET (DOMAIN nt_parameter_values), time \in Times :
          rt_handler(queries, time)

SweepInit ==
    /\ NtInit
    /\ OtherIdle
    /\ CtlIdle
    /\ sweep_prog \in {NestedSweep("a", "b"), NestedSweep("b", "a")}
    /\ sweep_pos = 1
    /\ EvIdle
    /\ SigIdle

SweepNext ==
    SweepForLoopEnter \/ SweepForLoopExit \/ SweepSetSwParam \/ SweepRtSection

SweepSpec == SweepInit /\ [][SweepNext]_vars

(***************************************************************************)
(* Event-list generation: SectionSchedule, CaseSchedule, EmptyBranch and   *)
(* LoopIterationSchedule.  generate_event_list returns the events and      *)
(* advances the shared id iterator, so every operator below returns        *)
(* [events, id_tracker] for the iterator value id it was called with.      *)
(***************************************************************************)
Signals == {"s1", "s2"}
\* the orders in which a node's signal set may be iterated
SignalSeqs ==
    {<<>>, <<"s1">>, <<"s2">>, <<"s1", "s2">>, <<"s2", "s1">>}
Lengths == {8, 16}
Starts == {0, 16}
SectionNames == <<"case1", "case2", "case3">>
ParamIds == <<"p1", "p2", "p3">>

\* {**d, **e}
Merge(d, e) ==
    [k \in DOMAIN d \cup DOMAIN e |-> IF k \in DOMAIN e THEN e[k] ELSE d[k]]

Result(events, id) == [events |-> events, id_tracker |-> id]

\* SectionSchedule.generate_event_list of a node without children: the
\* SECTION_START / SECTION_END pair that brackets the node
SectionSchedule_generate_event_list(self, start, max_events, id) ==
    Result(<<[event_type |-> "SECTION_START", time |-> start,
              id |-> id, section_name |-> self.section],
             [event_type |-> "SECTION_END", time |-> start + self.length,
              id |-> id + 1, section_name |-> self.section]>>,
           id + 2)

\* mutant: the state is written to every event of the list
CaseSchedule_generate_event_list_all(self, start, max_events, id) ==
    LET sup == SectionSchedule_generate_event_list(self, start, max_events, id)
    IN Result([i \in 1..Len(sup.events) |->
                 Merge(sup.events[i], [state |-> self.state])],
              sup.id_tracker)

\* CaseSchedule.generate_event_list
CaseSchedule_generate_event_list(self, start, max_events, id) ==
    LET sup == SectionSchedule_generate_event_list(self, start, max_events, id)
        section_start == Merge(sup.events[1], [state |-> self.state])
    IN Result([sup.events EXCEPT ![1] = section_start], sup.id_tracker)

\* mutant: the two bracketing events are charged to the budget as well
budget_exhausted_brackets(max_events) == max_events <= 4

\* EmptyBranch.generate_event_list, lines 60 and 71: no budget for a pair
budget_exhausted(max_events) == max_events <= 2

\* mutant: the loop stops on a budget of 0, with one event per budget unit
RECURSIVE delay_events_split(_, _, _, _, _)
delay_events_split(self, start, signals, max_events, id) ==
    IF signals = <<>> \/ max_events <= 2
    THEN Result(<<>>, id)
    ELSE LET d == [section_name |-> self.section,
                   play_wave_id |-> "EMPTY_MATCH_CASE_DELAY",
                   play_wave_type |-> "EMPTY_CASE"]
             delay_start == Merge([event_type |-> "DELAY_START", time |-> start,
                                   id |-> id, signal |-> Head(signals),
                                   chain_element_id |-> id], d)
             delay_end == Merge([event_type |-> "DELAY_END",
                                 time |-> start + self.length,
                                 id |-> id + 1, signal |-> Head(signals),
                                 chain_element_id |-> id], d)
         IN IF max_events = 3
            THEN Result(<<delay_start>>, id + 1)
            ELSE LET rest == delay_events_split(self, start, Tail(signals),
                                                max_events - 2, id + 2)
                 IN Result(<<delay_start, delay_end>> \o rest.events,
                           rest.id_tracker)

\* mutant: DELAY_END takes no id of its own from the iterator
RECURSIVE delay_events_shared_id(_, _, _, _, _)
delay_events_shared_id(self, start, signals, max_events, id) ==
    IF signals = <<>> \/ max_events <= 2
    THEN Result(<<>>, id)
    ELSE LET d == [section_name |-> self.section,
                   play_wave_id |-> "EMPTY_MATCH_CASE_DELAY",
                   play_wave_type |-> "EMPTY_CASE"]
             delay_start == Merge([event_type |-> "DELAY_START", time |-> start,
                                   id |-> id, signal |-> Head(signals),
                                   chain_element_id |-> id], d)
             delay_end == Merge([event_type |-> "DELAY_END",
                                 time |-> start + self.length,
                                 id |-> id, signal |-> Head(signals),
                                 chain_element_id |-> id], d)
             rest == delay_events_shared_id(self, start, Tail(signals),
                                            max_events - 2, id + 1)
         IN Result(<<delay_start, delay_end>> \o rest.events, rest.id_tracker)

\* EmptyBranch.generate_event_list, lines 63-94: the loop over self.signals
RECURSIVE delay_events(_, _, _, _, _)
delay_events(self, start, signals, max_events, id) ==
    IF signals = <<>> \/ budget_exhausted(max_events)
    THEN Result(<<>>, id)
    ELSE LET d == [section_name |-> self.section,
                   play_wave_id |-> "EMPTY_MATCH_CASE_DELAY",
                   play_wave_type |-> "EMPTY_CASE"]
             start_id == id
             delay_start == Merge([event_type |-> "DELAY_START", time |-> start,
                                   id |-> start_id, signal |-> Head(signals),
                                   chain_element_id |-> start_id], d)
             delay_end == Merge([event_type |-> "DELAY_END",
                                 time |-> start + self.length,
                                 id |-> id + 1, signal |-> Head(signals),
                                 chain_element_id |-> start_id], d)
             rest == delay_events(self, start, Tail(signals),
                                  max_events - 2, id + 2)
         IN Result(<<delay_start, delay_end>> \o rest.events, rest.id_tracker)

\* EmptyBranch.generate_event_list
EmptyBranch_generate_event_list(self, start, max_events, id) ==
    LET sup == CaseSchedule_generate_event_list(self, start, max_events, id)
        section_start == sup.events[1]
        section_end == sup.events[Len(sup.events)]
    IN IF budget_exhausted(max_events)
       THEN Result(<<section_start, section_end>>, sup.id_tracker)
       ELSE LET delays == delay_events(self, start, self.signals, max_events,
                                       sup.id_tracker)
            IN Result(<<section_start>> \o delays.events \o <<section_end>>,
                      delays.id_tracker)

\* SectionSchedule.children_events: the children's event lists in order, each
\* child generated with the budget the earlier children left, none once the
\* budget is used up
RECURSIVE children_events(_, _, _, _)
children_events(children, start, max_events, id) ==
    IF children = <<>> \/ max_events <= 0
    THEN Result(<<>>, id)
    ELSE LET first == EmptyBranch_generate_event_list(
                          Head(children), start, max_events, id)
             rest == children_events(Tail(children), start,
                                     max_events - Len(first.events),
                                     first.id_tracker)
         IN Result(first.events \o rest.events, rest.id_tracker)

\* mutant: only the loop's own events are tagged, not its children's
tag_shadow_own(event_list) ==
    [i \in 1..Len(event_list) |->
       IF "iteration" \in DOMAIN event_list[i]
       THEN Merge(event_list[i], [shadow |-> TRUE])
       ELSE event_list[i]]

\* LoopIterationSchedule.generate_event_list, lines 80-82
tag_shadow(event_list) ==
    [i \in 1..Len(event_list) |-> Merge(event_list[i], [shadow |-> TRUE])]

\* mutant: every iteration carries the parameter values of iteration 0
parameter_set_events_first(self, start) ==
    [i \in 1..Len(self.sweep_parameters) |->
       [event_type |-> "PARAMETER_SET", time |-> start,
        section_name |-> self.section,
        parameter |-> [id |-> self.sweep_parameters[i].id],
        iteration |-> self.iteration,
        value |-> self.sweep_parameters[i].values[1]]]

\* LoopIterationSchedule.generate_event_list, lines 60-70: one PARAMETER_SET
\* per sweep parameter
parameter_set_events(self, start) ==
    [i \in 1..Len(self.sweep_parameters) |->
       [event_type |-> "PARAMETER_SET", time |-> start,
        section_name |-> self.section,
        parameter |-> [id |-> self.sweep_parameters[i].id],
        iteration |-> self.iteration,
        value |-> self.sweep_parameters[i].values[self.iteration + 1]]]

\* LoopIterationSchedule.generate_event_list
LoopIterationSchedule_generate_event_list(self, start, max_events, id) ==
    LET common == [section_name |-> self.section,
                   iteration |-> self.iteration,
                   num_repeats |-> self.num_repeats,
                   nesting_level |-> 0]
        end == start + self.length
        budget == max_events - Len(self.sweep_parameters)
                     - (IF self.iteration = 0 THEN 1 ELSE 0) - 3
        children == children_events(self.children, start, budget, id)
        parameter_set == parameter_set_events(self, start)
        event_list ==
            <<Merge([event_type |-> "LOOP_STEP_START", time |-> start], common)>>
            \o parameter_set
            \o children.events
            \o <<Merge([event_type |-> "LOOP_STEP_END", time |-> end], common)>>
            \o (IF self.iteration = 0
                THEN <<Merge([event_type |-> "LOOP_ITERATION_END",
                              time |-> end], common)>>
                ELSE <<>>)
    IN Result(IF self.shadow THEN tag_shadow(event_list) ELSE event_list,
              children.id_tracker)

\* mutant: the copy keeps the iteration of the schedule it is made from
compressed_iteration_same(self, iteration) == [self EXCEPT !.shadow = TRUE]

\* LoopIterationSchedule.compressed_iteration
compressed_iteration(self, iteration) ==
    [self EXCEPT !.iteration = iteration, !.shadow = TRUE]

(***************************************************************************)
(* The schedule nodes event lists are generated for                        *)
(***************************************************************************)
\* an EmptyBranch: state n of its match, owning the given signals
EmptyBranch(n, signals, length) ==
    [kind |-> "EmptyBranch", section |-> SectionNames[n], state |-> n - 1,
     signals |-> signals, length |-> length]

\* a CaseSchedule without children: state n - 1 of its match
CaseSchedule(n, signals, length) ==
    [EmptyBranch(n, signals, length) EXCEPT !.kind = "CaseSchedule"]

\* iteration 0 of a loop over nparams sweep parameters whose body is the
\* given branches
LoopIterationSchedule(nparams, branches, length, shadow) ==
    [kind |-> "LoopIterationSchedule", section |-> "loop", iteration |-> 0,
     num_repeats |-> NumIterations, shadow |-> shadow, length |-> length,
     sweep_parameters |->
        [i \in 1..nparams |->
           [id |-> ParamIds[i],
            values |-> [k \in 1..NumIterations |-> 10 * i + k]]],
     children |->
        [n \in 1..Len(branches) |-> EmptyBranch(n, branches[n], length)]]

EvInit ==
    /\ NtInit
    /\ OtherIdle
    /\ CtlIdle
    /\ sweep_prog = <<>>
    /\ sweep_pos = 1
    /\ \/ \E signals \in SignalSeqs, length \in Lengths :
             ev_sched = EmptyBranch(1, signals, length)
       \/ \E n \in 1..Len(SectionNames), signals \in SignalSeqs,
             length \in Lengths :
             ev_sched = CaseSchedule(n, signals, length)
       \/ \E nparams \in 0..MaxParams, length \in Lengths, shadow \in BOOLEAN,
             branches \in UNION {[1..n -> SignalSeqs] : n \in 0..MaxChildren} :
             ev_sched = LoopIterationSchedule(nparams, branches, length, shadow)
    /\ ev_start \in Starts
    /\ ev_calls = <<>>
    /\ ev_lists = <<>>
    /\ id_tracker = 0
    /\ SigIdle

\* a call of generate_event_list on the EmptyBranch
GenerateEmptyBranch ==
    /\ ev_sched.kind = "EmptyBranch"
    /\ Len(ev_calls) < NumIterations
    /\ \E max_events \in 0..MaxEvents :
          LET r == EmptyBranch_generate_event_list(
                       ev_sched, ev_start, max_events, id_tracker)
          IN /\ ev_calls' = Append(ev_calls,
                   [self |-> ev_sched, start |-> ev_start,
                    max_events |-> max_events, id_tracker |-> id_tracker])
             /\ ev_lists' = Append(ev_lists, r.events)
             /\ id_tracker' = r.id_tracker
    /\ UNCHANGED <<ev_sched, ev_start, ntVars, sweepVars, sigVars, ctlVars,
                   otherVars>>

\* a call of generate_event_list on the CaseSchedule
GenerateCase ==
    /\ ev_sched.kind = "CaseSchedule"
    /\ Len(ev_calls) < NumIterations
    /\ \E max_events \in 0..MaxEvents :
          LET r == CaseSchedule_generate_event_list(
                       ev_sched, ev_start, max_events, id_tracker)
          IN /\ ev_calls' = Append(ev_calls,
                   [self |-> ev_sched, start |-> ev_start,
                    max_events |-> max_events, id_tracker |-> id_tracker])
             /\ ev_lists' = Append(ev_lists, r.events)
             /\ id_tracker' = r.id_tracker
    /\ UNCHANGED <<ev_sched, ev_start, ntVars, sweepVars, sigVars, ctlVars,
                   otherVars>>

\* generate_event_list of the loop's next iteration: of the loop iteration
\* schedule itself for iteration 0, of its compressed_iteration copy after
GenerateLoopIteration ==
    /\ ev_sched.kind = "LoopIterationSchedule"
    /\ Len(ev_calls) < NumIterations
    /\ \E max_events \in 0..MaxEvents :
          LET iteration == Len(ev_calls)
              self == IF iteration = 0 THEN ev_sched
                      ELSE compressed_iteration(ev_sched, iteration)
              start == ev_start + iteration * ev_sched.length
              r == LoopIterationSchedule_generate_event_list(
                       self, start, max_events, id_tracker)
          IN /\ ev_calls' = Append(ev_calls,
                   [self |-> self, start |-> start, max_events |-> max_events,
                    id_tracker |-> id_tracker])
             /\ ev_lists' = Append(ev_lists, r.events)
             /\ id_tracker' = r.id_tracker
    /\ UNCHANGED <<ev_sched, ev_start, ntVars, sweepVars, sigVars, ctlVars,
                   otherVars>>

EvNext == GenerateEmptyBranch \/ GenerateCase \/ GenerateLoopIteration

EvSpec == EvInit /\ [][EvNext]_vars

(***************************************************************************)
(* Signatures: PulseSignature, WaveformSignature, PlaybackSignature.       *)
(* A phase is a binary floating-point number with a significand of         *)
(* MantissaBits bits; every operation on phases rounds to the nearest such *)
(* number, ties to even, as the operations on Python floats do.            *)
(***************************************************************************)
\* one float unit: the values count multiples of 2^-FracBits
Unit == 2 ^ FracBits

\* the nearest integer of the quotient num / den (den > 0), a tie going to
\* the even one: Python's round() and the rounding of every float operation
round_half_even(num, den) ==
    LET q == num \div den
        r == num % den
    IN IF 2 * r < den THEN q
       ELSE IF 2 * r > den THEN q + 1
       ELSE IF q % 2 = 0 THEN q ELSE q + 1

\* the least e >= from with num / den < 2^(MantissaBits + e)
RECURSIVE exponent(_, _, _)
exponent(num, den, from) ==
    IF num < den * 2 ^ (MantissaBits + from) THEN from
    ELSE exponent(num, den, from + 1)

\* the float nearest to num / den units: the quotient rounded to
\* MantissaBits significant bits
float(num, den) ==
    LET e == exponent(IF num < 0 THEN -num ELSE num, den, 0)
    IN IF num < 0
       THEN -(round_half_even(-num, den * 2 ^ e) * 2 ^ e)
       ELSE round_half_even(num, den * 2 ^ e) * 2 ^ e

\* the float operators x + y, x - y, x * y, x / y and the conversion of an int
float_add(x, y) == float(x + y, 1)
float_sub(x, y) == float(x - y, 1)
float_mul(x, y) == float(x * y, Unit)
float_div(x, y) == float(x * Unit, y)
float_of_int(k) == float(k * Unit, 1)

\* x % y for floats, y > 0: the exact remainder of C's fmod, to which y is
\* added (and the sum rounded) when it is negative
float_mod(x, y) ==
    LET fmod == IF x >= 0 THEN x % y ELSE -((-x) % y)
    IN IF fmod < 0 THEN float_add(fmod, y) ELSE fmod

\* round(x) of a float x
round(x) == round_half_even(x, Unit)

\* math.pi
pi == float(355 * Unit, 113)

\* 2 * math.pi
TwoPi == float_mul(float_of_int(2), pi)

\* `x or 0.0` for an Optional[float] x
or_zero(x) == IF x = None THEN 0 ELSE x[1]

\* normalize_phase: the phase reduced into [0, 2*pi)
normalize_phase(phase) == float_mod(phase, TwoPi)

\* phase / 2 / math.pi
turns(phase) == float_div(float_div(phase, float_of_int(2)), pi)

\* round(phase / 2 / math.pi * range) / range * 2 * math.pi
quantize(phase, range) ==
    LET k == round(float_mul(turns(phase), float_of_int(range)))
    IN float_mul(float_mul(float(k * Unit, range), float_of_int(2)), pi)

\* the same for the range 1 << bits.  A float is a whole number of units
\* 2^-FracBits, so for bits >= FracBits its product with 1 << bits is an
\* integer that round() and the division by 1 << bits give back unchanged
quantize_bits(phase, bits) ==
    IF bits >= FracBits
    THEN float_mul(float_mul(turns(phase), float_of_int(2)), pi)
    ELSE quantize(phase, 2 ^ bits)

\* PlaybackSignature.quantize_phase
quantize_phase(self, range) ==
    LET pulses == self.waveform.pulses
    IN [self EXCEPT
          !.waveform.pulses =
              [i \in 1..Len(pulses) |->
                 IF pulses[i].phase # None
                 THEN [pulses[i] EXCEPT
                         !.phase = Some(normalize_phase(
                                      quantize(pulses[i].phase[1], range)))]
                 ELSE pulses[i]],
          !.set_phase =
              IF self.set_phase # None
              THEN Some(normalize_phase(
                      quantize_bits(self.set_phase[1], RegisterBits)))
              ELSE None,
          !.increment_phase =
              IF self.increment_phase # None
              THEN Some(normalize_phase(
                      quantize_bits(self.increment_phase[1], RegisterBits)))
              ELSE None]

\* reduce_signature_phase, line 157
this_hw_oscillator_phase(sig) ==
    or_zero(sig.waveform.pulses[Len(sig.waveform.pulses)].baseband_phase)

\* mutant: the phase is always set directly
track_set_phase_always(sig, prev_hw_oscillator_phase) ==
    [sig EXCEPT !.set_phase = Some(this_hw_oscillator_phase(sig))]

\* reduce_signature_phase, lines 158-168: the phase written to the register
track_hw_oscillator_phase(sig, prev_hw_oscillator_phase) ==
    IF prev_hw_oscillator_phase # None
    THEN LET increment ==
                 float_mod(float_sub(this_hw_oscillator_phase(sig),
                                     prev_hw_oscillator_phase[1]), TwoPi)
         IN IF increment # 0
            THEN [sig EXCEPT !.increment_phase = Some(increment)]
            ELSE sig
    ELSE [sig EXCEPT !.set_phase = Some(this_hw_oscillator_phase(sig))]

\* mutant: the baseband phase is kept as it is
relative_baseband_phase_absolute(pulse, this) ==
    [pulse EXCEPT !.baseband_phase = Some(or_zero(pulse.baseband_phase))]

\* reduce_signature_phase, lines 169-172
relative_baseband_phase(pulse, this) ==
    [pulse EXCEPT
       !.baseband_phase =
           Some(float_mod(float_sub(or_zero(pulse.baseband_phase), this),
                          TwoPi))]

\* mutant: the oscillator phase is cleared without being added
absorb_phase_baseband_only(pulse) ==
    LET baseband == IF pulse.baseband_phase # None
                    THEN [pulse EXCEPT
                            !.phase = Some(float_add(or_zero(pulse.phase),
                                                     pulse.baseband_phase[1])),
                            !.baseband_phase = None]
                    ELSE pulse
    IN [baseband EXCEPT !.oscillator_phase = None]

\* reduce_signature_phase, lines 175-181
absorb_phase(pulse) ==
    LET baseband == IF pulse.baseband_phase # None
                    THEN [pulse EXCEPT
                            !.phase = Some(float_add(or_zero(pulse.phase),
                                                     pulse.baseband_phase[1])),
                            !.baseband_phase = None]
                    ELSE pulse
    IN IF baseband.oscillator_phase # None
       THEN [baseband EXCEPT
               !.phase = Some(float_add(or_zero(baseband.phase),
                                        baseband.oscillator_phase[1])),
               !.oscillator_phase = None]
       ELSE baseband

\* reduce_signature_phase: the signature it returns
reduce_signature_phase(sig, use_ct_phase, prev_hw_oscillator_phase) ==
    LET this == this_hw_oscillator_phase(sig)
        tracked == IF use_ct_phase
                   THEN track_hw_oscillator_phase(sig, prev_hw_oscillator_phase)
                   ELSE sig
        pulses == sig.waveform.pulses
    IN [tracked EXCEPT
          !.waveform.pulses =
              [i \in 1..Len(pulses) |->
                 absorb_phase(IF use_ct_phase
                              THEN relative_baseband_phase(pulses[i], this)
                              ELSE pulses[i])]]

\* the Optional[float] phases a signature is built from: absent, -1.5 and
\* 10.0, which is more than 2*pi
PhaseValues == {None, Some(float(-3 * Unit, 2)), Some(float_of_int(10))}

\* the resolutions quantize_phase is called with
Resolutions == {1, 3, 16}

PulseSignature(start, phase, oscillator_phase, baseband_phase, pulse_parameters) ==
    [start |-> start, pulse |-> "gauss", length |-> 8, amplitude |-> Some(1),
     phase |-> phase, oscillator_phase |-> oscillator_phase,
     oscillator_frequency |-> None, baseband_phase |-> baseband_phase,
     channel |-> None, sub_channel |-> None,
     pulse_parameters |-> pulse_parameters, markers |-> None]

WaveformSignature(length, pulses) == [length |-> length, pulses |-> pulses]

PlaybackSignature(waveform, set_phase, increment_phase) ==
    [waveform |-> waveform, hw_oscillator |-> Some("osc"),
     pulse_parameters |-> <<>>, state |-> None, set_phase |-> set_phase,
     increment_phase |-> increment_phase, clear_precompensation |-> FALSE]

\* the pulses a waveform of n pulses has at position i, starting at
\* 8 * (i - 1); the last pulse takes every combination of phases
PulsesAt(i, n) ==
    {PulseSignature(8 * (i - 1), phase, oscillator_phase, baseband_phase, <<>>) :
       phase \in IF i = n THEN PhaseValues ELSE {None, Some(float_of_int(10))},
       oscillator_phase \in IF i = n THEN PhaseValues
                           ELSE {None, Some(float(-3 * Unit, 2))},
       baseband_phase \in IF i = n THEN PhaseValues
                         ELSE {None, Some(float(-3 * Unit, 2))}}

\* set_phase and increment_phase are not both populated
RegisterPhases ==
    {rp \in PhaseValues \X PhaseValues : rp[1] = None \/ rp[2] = None}

SigInit ==
    /\ NtInit
    /\ OtherIdle
    /\ CtlIdle
    /\ sweep_prog = <<>>
    /\ sweep_pos = 1
    /\ EvIdle
    /\ \E n \in 1..MaxPulses :
          \E pulses \in [1..n -> UNION {PulsesAt(i, n) : i \in 1..n}],
             rp \in RegisterPhases :
             /\ \A i \in 1..n : pulses[i] \in PulsesAt(i, n)
             /\ signature = Some(PlaybackSignature(
                                   WaveformSignature(8 * n, pulses),
                                   rp[1], rp[2]))
    /\ phase_resolution_range \in Resolutions
    /\ sig_calls = <<>>
    /\ wf_pair = <<>>
    /\ wf_digests = <<>>
    /\ wf_suffixes = <<>>
    /\ PairIdle
    /\ HeapIdle

\* signature = reduce_signature_phase(signature, use_ct_phase, prev)
ReduceSignaturePhase ==
    /\ sig_calls = <<>>
    /\ \E use_ct_phase \in BOOLEAN, prev_hw_oscillator_phase \in PhaseValues :
          LET result == reduce_signature_phase(signature[1], use_ct_phase,
                                               prev_hw_oscillator_phase)
          IN /\ signature' = Some(result)
             /\ sig_calls' = Append(sig_calls,
                   [fn |-> "reduce_signature_phase",
                    use_ct_phase |-> use_ct_phase,
                    prev_hw_oscillator_phase |-> prev_hw_oscillator_phase,
                    before |-> signature[1], after |-> result])
    /\ UNCHANGED <<phase_resolution_range, wf_pair, wf_digests, wf_suffixes,
                   pairVars, heapVars, ntVars, sweepVars, evVars,
                   ctlVars, otherVars>>

\* signature.quantize_phase(phase_resolution_range)
QuantizePhase ==
    /\ Len(sig_calls) < MaxSigCalls
    /\ LET result == quantize_phase(signature[1], phase_resolution_range)
       IN /\ signature' = Some(result)
          /\ sig_calls' = Append(sig_calls,
                [fn |-> "quantize_phase",
                 use_ct_phase |-> FALSE,
                 prev_hw_oscillator_phase |-> None,
                 before |-> signature[1], after |-> result])
    /\ UNCHANGED <<phase_resolution_range, wf_pair, wf_digests, wf_suffixes,
                   pairVars, heapVars, ntVars, sweepVars, evVars,
                   ctlVars, otherVars>>

SigNext == ReduceSignaturePhase \/ QuantizePhase

SigSpec == SigInit /\ [][SigNext]_vars

(***************************************************************************)
(* Two signatures that differ by a common offset of all baseband phases,   *)
(* each reduced with use_ct_phase.                                         *)
(***************************************************************************)
\* the baseband phases of the pulses: absent, -1.5, 1.0 and 10.0
BasebandValues ==
    {None, Some(float(-3 * Unit, 2)), Some(float_of_int(1)),
     Some(float_of_int(10))}

\* the common offsets: 1.5, -2.0 and 10.0
Offsets == {float(3 * Unit, 2), float_of_int(-2), float_of_int(10)}

\* x is a float
is_float(x) == float(x, 1) = x

\* sig with offset added to the baseband phase of every pulse, an absent
\* baseband phase being the phase 0.0
Shifted(sig, offset) ==
    [sig EXCEPT
       !.waveform.pulses =
           [i \in 1..Len(sig.waveform.pulses) |->
              [sig.waveform.pulses[i] EXCEPT
                 !.baseband_phase = Some(or_zero(@) + offset)]]]

\* the pulses of the shifted signatures
ShiftPulsesAt(i) ==
    {PulseSignature(8 * (i - 1), phase, oscillator_phase, baseband_phase, <<>>) :
       phase \in {None, Some(float_of_int(10))},
       oscillator_phase \in {None, Some(float(-3 * Unit, 2))},
       baseband_phase \in BasebandValues}

ShiftInit ==
    /\ NtInit
    /\ OtherIdle
    /\ CtlIdle
    /\ sweep_prog = <<>>
    /\ sweep_pos = 1
    /\ EvIdle
    /\ \E n \in 1..MaxPulses :
          \E pulses \in [1..n -> UNION {ShiftPulsesAt(i) : i \in 1..n}],
             offset \in Offsets :
             /\ \A i \in 1..n :
                   /\ pulses[i] \in ShiftPulsesAt(i)
                   /\ is_float(or_zero(pulses[i].baseband_phase) + offset)
             /\ signature = Some(PlaybackSignature(
                                   WaveformSignature(8 * n, pulses),
                                   None, None))
             /\ shifted = Some(Shifted(signature[1], offset))
    /\ shifted_reduced = None
    /\ phase_resolution_range = 1
    /\ sig_calls = <<>>
    /\ wf_pair = <<>>
    /\ wf_digests = <<>>
    /\ wf_suffixes = <<>>
    /\ HeapIdle

\* shifted_reduced = reduce_signature_phase(shifted, True, prev)
ReduceShifted ==
    /\ shifted # None
    /\ shifted_reduced = None
    /\ \E prev_hw_oscillator_phase \in PhaseValues :
          shifted_reduced' =
              Some(reduce_signature_phase(shifted[1], TRUE,
                                          prev_hw_oscillator_phase))
    /\ UNCHANGED <<signature, phase_resolution_range, sig_calls, wf_pair,
                   wf_digests, wf_suffixes, shifted, heapVars, ntVars,
                   sweepVars, evVars, ctlVars, otherVars>>

ShiftNext == ReduceSignaturePhase \/ ReduceShifted

ShiftSpec == ShiftInit /\ [][ShiftNext]_vars

(***************************************************************************)
(* reduce_signature_phase on objects.  The heap maps an address to an      *)
(* object; a PlaybackSignature object holds the address of its             *)
(* WaveformSignature, whose pulses tuple holds the addresses of the        *)
(* PulseSignature objects.                                                 *)
(***************************************************************************)
\* the objects reachable from the PlaybackSignature at address ref
Reachable(h, ref) ==
    LET pulses == h[h[ref].waveform].pulses
    IN {ref, h[ref].waveform} \cup {pulses[i] : i \in 1..Len(pulses)}

\* the PlaybackSignature at address ref, as a value
Load(h, ref) ==
    LET waveform == h[h[ref].waveform]
    IN [h[ref] EXCEPT
          !.waveform =
              [waveform EXCEPT
                 !.pulses = [i \in 1..Len(waveform.pulses) |->
                               h[waveform.pulses[i]]]]]

\* mutant: copy.copy, a new PlaybackSignature object with the fields of the
\* old one
deepcopy_shallow(h, ref) == [heap |-> Append(h, h[ref]), ref |-> Len(h) + 1]

\* copy.deepcopy of the object at address ref: every reachable object is
\* copied to a new address, the references between the copies follow
deepcopy(h, ref) ==
    LET old == Reachable(h, ref)
        new(x) == Len(h) + Cardinality({y \in old : y <= x})
        relocated(obj) ==
            IF "waveform" \in DOMAIN obj
            THEN [obj EXCEPT !.waveform = new(@)]
            ELSE IF "pulses" \in DOMAIN obj
            THEN [obj EXCEPT !.pulses = [i \in 1..Len(@) |-> new(@[i])]]
            ELSE obj
    IN [heap |-> [k \in 1..(Len(h) + Cardinality(old)) |->
                    IF k <= Len(h) THEN h[k]
                    ELSE relocated(h[CHOOSE x \in old : new(x) = k])],
        ref |-> new(ref)]

\* the assignments of lines 163, 167, 169 and 176-180: the phases of value
\* are written to the PlaybackSignature object at ref and to its pulses
Store(h, ref, value) ==
    LET pulses == h[h[ref].waveform].pulses
    IN [k \in 1..Len(h) |->
          IF k = ref
          THEN [h[k] EXCEPT !.set_phase = value.set_phase,
                            !.increment_phase = value.increment_phase]
          ELSE IF \E i \in 1..Len(pulses) : pulses[i] = k
          THEN value.waveform.pulses[CHOOSE i \in 1..Len(pulses) :
                                        pulses[i] = k]
          ELSE h[k]]

\* reduce_signature_phase called with the object at address ref: the heap
\* after the call and the address returned
reduce_signature_phase_call(h, ref, use_ct_phase, prev_hw_oscillator_phase) ==
    LET copy == deepcopy(h, ref)
    IN [heap |-> Store(copy.heap, copy.ref,
                       reduce_signature_phase(Load(copy.heap, copy.ref),
                                              use_ct_phase,
                                              prev_hw_oscillator_phase)),
        ref |-> copy.ref]

\* a PlaybackSignature at address 1, its WaveformSignature at 2, the n pulses
\* at 3..n+2, and a second PlaybackSignature of the same waveform at n+3
HeapInit ==
    /\ NtInit
    /\ OtherIdle
    /\ CtlIdle
    /\ sweep_prog = <<>>
    /\ sweep_pos = 1
    /\ EvIdle
    /\ signature = None
    /\ phase_resolution_range = 1
    /\ sig_calls = <<>>
    /\ wf_pair = <<>>
    /\ wf_digests = <<>>
    /\ wf_suffixes = <<>>
    /\ PairIdle
    /\ \E n \in 1..MaxPulses :
          \E pulses \in [1..n -> UNION {PulsesAt(i, n) : i \in 1..n}] :
             /\ \A i \in 1..n : pulses[i] \in PulsesAt(i, n)
             /\ heap = <<PlaybackSignature(2, None, None),
                         WaveformSignature(8 * n, [i \in 1..n |-> i + 2])>>
                          \o pulses
                          \o <<PlaybackSignature(2, None, None)>>
    /\ heap_arg = 1
    /\ heap_result = None

\* result = reduce_signature_phase(arg, use_ct_phase, prev)
ReduceOnHeap ==
    /\ heap_arg # 0
    /\ heap_result = None
    /\ \E use_ct_phase \in BOOLEAN, prev_hw_oscillator_phase \in PhaseValues :
          LET call == reduce_signature_phase_call(heap, heap_arg, use_ct_phase,
                                                  prev_hw_oscillator_phase)
          IN /\ heap' = call.heap
             /\ heap_result' = Some(call.ref)
    /\ UNCHANGED <<signature, phase_resolution_range, sig_calls, wf_pair,
                   wf_digests, wf_suffixes, pairVars, heap_arg, ntVars,
                   sweepVars, evVars, ctlVars, otherVars>>

HeapNext == ReduceOnHeap

HeapSpec == HeapInit /\ [][HeapNext]_vars

(***************************************************************************)
(* WaveformSignature.stable_hash.  A frozenset is the sequence of its      *)
(* elements in the order its iteration yields them, which depends on the   *)
(* order of insertion; the SHA-1 digest is represented by the bytes it is  *)
(* computed from.                                                          *)
(***************************************************************************)
\* names and values of the user pulse parameters, the names in string order
ParamNames == <<"amp", "sigma">>
ParamValues == {1, 2}

\* the (name, value) tuples x < y
tuple_less(x, y) ==
    LET rank(name) == CHOOSE i \in 1..Len(ParamNames) : ParamNames[i] = name
    IN \/ rank(x[1]) < rank(y[1])
       \/ (x[1] = y[1] /\ x[2] < y[2])

\* sorted(obj)
RECURSIVE sorted(_)
sorted(obj) ==
    IF obj = <<>> THEN <<>>
    ELSE LET least == CHOOSE i \in 1..Len(obj) :
                         \A j \in 1..Len(obj) : ~tuple_less(obj[j], obj[i])
             others == [j \in 1..(Len(obj) - 1) |->
                          IF j < least THEN obj[j] ELSE obj[j + 1]]
         IN <<obj[least]>> \o sorted(others)

\* mutant: a frozenset is serialized in the order of its iteration
default_unsorted(obj) == obj

\* stable_hash, default(obj) for a frozenset: tuple(sorted(obj))
default(obj) == sorted(obj)

\* orjson.dumps of the signature: dataclasses as objects with sorted keys,
\* tuples as arrays, a frozenset through default
dumps(self) ==
    [length |-> self.length,
     pulses |-> [i \in 1..Len(self.pulses) |->
                   [self.pulses[i] EXCEPT !.pulse_parameters = default(@)]]]

\* WaveformSignature.stable_hash
stable_hash(self) == [sha1 |-> dumps(self)]

\* WaveformSignature.signature_string, lines 80-81: the suffix it appends
hashed_signature(self) == [hexdigest7 |-> stable_hash(self)]

\* the pulse_parameters frozensets, as iteration orders: no parameter, one,
\* or two of different names in either order
ParamTuples == {<<ParamNames[i], v>> : i \in 1..Len(ParamNames),
                                           v \in ParamValues}

ParamOrders ==
    {<<>>} \cup {<<x>> : x \in ParamTuples}
           \cup {xy \in ParamTuples \X ParamTuples : xy[1][1] # xy[2][1]}

\* WaveformSignature.length, in samples
WaveformLengths == {8, 16}

HashWaveforms ==
    {WaveformSignature(length,
                       <<PulseSignature(0, None, None, None, params)>>) :
       length \in WaveformLengths, params \in ParamOrders}

HashInit ==
    /\ NtInit
    /\ OtherIdle
    /\ CtlIdle
    /\ sweep_prog = <<>>
    /\ sweep_pos = 1
    /\ EvIdle
    /\ signature = None
    /\ phase_resolution_range = 1
    /\ sig_calls = <<>>
    /\ wf_pair \in HashWaveforms \X HashWaveforms
    /\ wf_digests = <<None, None>>
    /\ wf_suffixes = <<None, None>>
    /\ PairIdle
    /\ HeapIdle

\* a call of stable_hash on one of the two signatures
StableHash ==
    /\ \E i \in 1..2 :
          wf_digests' = [wf_digests EXCEPT ![i] = Some(stable_hash(wf_pair[i]))]
    /\ UNCHANGED <<signature, phase_resolution_range, sig_calls, wf_pair,
                   wf_suffixes, pairVars, heapVars, ntVars, sweepVars, evVars,
                   ctlVars, otherVars>>

\* a call of signature_string on one of the two signatures
SignatureString ==
    /\ \E i \in 1..2 :
          wf_suffixes' =
              [wf_suffixes EXCEPT ![i] = Some(hashed_signature(wf_pair[i]))]
    /\ UNCHANGED <<signature, phase_resolution_range, sig_calls, wf_pair,
                   wf_digests, pairVars, heapVars, ntVars, sweepVars, evVars,
                   ctlVars, otherVars>>

HashNext == StableHash \/ SignatureString

HashSpec == HashInit /\ [][HashNext]_vars

(***************************************************************************)
(* DeviceZI: allocation of oscillators.  allocate_osc either returns or    *)
(* raises; an operator returns the list of allocated oscillators after     *)
(* the call and the exception raised, if any.                              *)
(***************************************************************************)
DeviceClasses == {"DeviceZI", "DeviceSHFQA"}
Channels == {0, 1}
OscIds == {"osc_a", "osc_b"}
Frequencies == {100, 200}

\* OscillatorParam.Data
OscParams ==
    [id : OscIds, channel : Channels, frequency : Frequencies, param : {"f"}]

\* _osc_group_by_channel, of DeviceZI and of DeviceSHFQA
osc_group_by_channel(class, channel) == channel

\* _get_next_osc_index: None for DeviceZI; DeviceSHFQA has one oscillator per
\* group
get_next_osc_index(class, osc_group, previously_allocated) ==
    IF class = "DeviceSHFQA"
    THEN IF previously_allocated >= 1 THEN None ELSE Some(previously_allocated)
    ELSE None

\* mutant: a different frequency is accepted
frequency_conflict_never(same_id_osc, osc_param) == FALSE

\* allocate_osc, line 456
frequency_conflict(same_id_osc, osc_param) ==
    same_id_osc.frequency # osc_param.frequency

\* DeviceZI.allocate_osc
allocate_osc(class, oscs, osc_param) ==
    LET osc_group == osc_group_by_channel(class, osc_param.channel)
        osc_group_oscs == {i \in 1..Len(oscs) : oscs[i].group = osc_group}
        same_id == {i \in osc_group_oscs : oscs[i].id = osc_param.id}
    IN IF same_id = {}
       THEN LET new_index == get_next_osc_index(class, osc_group,
                                                Cardinality(osc_group_oscs))
            IN IF new_index = None
               THEN [oscs |-> oscs,
                     exception |-> Some("LabOneQControllerException")]
               ELSE [oscs |-> Append(oscs,
                        [group |-> osc_group,
                         channels |-> {osc_param.channel},
                         index |-> new_index[1],
                         id |-> osc_param.id,
                         frequency |-> osc_param.frequency,
                         param |-> osc_param.param]),
                     exception |-> None]
       ELSE LET first == CHOOSE i \in same_id : \A j \in same_id : i <= j
            IN IF frequency_conflict(oscs[first], osc_param)
               THEN [oscs |-> oscs,
                     exception |-> Some("LabOneQControllerException")]
               ELSE [oscs |-> [oscs EXCEPT
                                 ![first].channels = @ \cup {osc_param.channel}],
                     exception |-> None]

\* DeviceZI.__init__
OscInit ==
    /\ NtInit
    /\ OtherIdle
    /\ sweep_prog = <<>>
    /\ sweep_pos = 1
    /\ EvIdle
    /\ SigIdle
    /\ device_class \in DeviceClasses
    /\ allocated_oscs = <<>>
    /\ osc_last = None
    /\ WaiterIdle
    /\ ConnIdle

AllocateOsc ==
    /\ device_class # "none"
    /\ \E osc_param \in OscParams :
          LET call == allocate_osc(device_class, allocated_oscs, osc_param)
          IN /\ allocated_oscs' = call.oscs
             /\ osc_last' = Some([fn |-> "allocate_osc",
                                  osc_param |-> Some(osc_param),
                                  before |-> allocated_oscs,
                                  exception |-> call.exception])
    /\ UNCHANGED <<device_class, ntVars, sweepVars, evVars, sigVars,
                   waiterVars, connVars, otherVars>>

\* DeviceZI.free_allocations
FreeAllocations ==
    /\ device_class # "none"
    /\ allocated_oscs' = <<>>
    /\ osc_last' = Some([fn |-> "free_allocations", osc_param |-> None,
                         before |-> allocated_oscs, exception |-> None])
    /\ UNCHANGED <<device_class, ntVars, sweepVars, evVars, sigVars,
                   waiterVars, connVars, otherVars>>

OscNext == AllocateOsc \/ FreeAllocations

OscSpec == OscInit /\ [][OscNext]_vars

(***************************************************************************)
(* NodeMonitor and ResponseWaiter.  A dict is a function; a node is its    *)
(* list of values with the last value appended.  One round of the loop of  *)
(* wait_all is one step; node updates and the clock advance between the    *)
(* rounds.                                                                 *)
(***************************************************************************)
Monitors == {"monitorA", "monitorB"}
Paths == {"/dev1/path1", "/dev1/path2"}
NodeValues == {0, 1}
\* the expected value of a condition: None (any update) or a value
Expected == {None} \cup {Some(v) : v \in NodeValues}
Timeouts == {0, 1}

\* _is_expected, for the list [expected] of one expected value
is_expected(val, expected) == expected = None \/ val = expected[1]

\* MultiDeviceHandlerBase.add
add(conds, target, new_conditions) ==
    LET daq_conditions == IF target \in DOMAIN conds THEN conds[target]
                          ELSE EmptyDict
    IN [m \in DOMAIN conds \cup {target} |->
          IF m = target THEN Merge(daq_conditions, new_conditions)
          ELSE conds[m]]

\* NodeMonitor.poll: every update the data server holds is appended to the
\* node of its path; the update of a path without a node goes to a
\* temporary node and is lost
poll(monitor_nodes, updates) ==
    [path \in DOMAIN monitor_nodes |->
       IF updates[path] = <<>> THEN monitor_nodes[path]
       ELSE [values |-> monitor_nodes[path].values \o updates[path],
             last |-> Some(updates[path][Len(updates[path])])]]

\* the position of the first value of the node's list that is expected, 0
\* when none is
first_expected(values, expected) ==
    IF \E i \in 1..Len(values) : is_expected(values[i], expected)
    THEN CHOOSE i \in 1..Len(values) :
            /\ is_expected(values[i], expected)
            /\ \A j \in 1..(i - 1) : ~is_expected(values[j], expected)
    ELSE 0

\* poll_and_check_conditions, lines 136-138: the path has no node
unregistered_skipped(monitor_nodes, path) == path \notin DOMAIN monitor_nodes

\* NodeMonitor.poll_and_check_conditions, after the poll: the remaining
\* conditions
remaining_conditions(monitor_nodes, daq_conditions) ==
    LET unmet == {path \in DOMAIN daq_conditions :
                    /\ ~unregistered_skipped(monitor_nodes, path)
                    /\ first_expected(monitor_nodes[path].values,
                                      daq_conditions[path]) = 0}
    IN [path \in unmet |-> daq_conditions[path]]

\* NodeMonitor.poll_and_check_conditions, after the poll: the nodes after the
\* pops, up to the first expected value or of all values
popped_nodes(monitor_nodes, daq_conditions) ==
    [path \in DOMAIN monitor_nodes |->
       IF path \in DOMAIN daq_conditions
       THEN LET values == monitor_nodes[path].values
                k == first_expected(values, daq_conditions[path])
            IN [monitor_nodes[path] EXCEPT
                  !.values = IF k = 0 THEN <<>>
                             ELSE SubSeq(values, k + 1, Len(values))]
       ELSE monitor_nodes[path]]

\* ResponseWaiter.remaining: the dicts of the monitors, in the order of
\* their adds, merged into one
ResponseWaiter_remaining(conds) ==
    Merge(IF "monitorA" \in DOMAIN conds THEN conds["monitorA"] ELSE EmptyDict,
          IF "monitorB" \in DOMAIN conds THEN conds["monitorB"] ELSE EmptyDict)

\* the conditions registered with the waiter: one add per monitor
ConditionSets == UNION {[paths -> Expected] : paths \in SUBSET Paths}

\* NodeMonitor.__init__ and add_nodes, ResponseWaiter.__init__ and add
WaiterInit ==
    /\ NtInit
    /\ OtherIdle
    /\ sweep_prog = <<>>
    /\ sweep_pos = 1
    /\ EvIdle
    /\ SigIdle
    /\ OscIdle
    /\ ConnIdle
    /\ daq = [m \in Monitors |-> [path \in Paths |-> <<>>]]
    /\ sent = 0
    /\ \E paths \in [Monitors -> SUBSET Paths] :
          nodes = [m \in Monitors |->
                     [path \in paths[m] |-> [values |-> <<>>, last |-> None]]]
    /\ \E condsA \in ConditionSets, condsB \in {EmptyDict} \cup
                                      [{"/dev1/path1"} -> {Some(1)}] :
          conditions = IF condsB = EmptyDict
                       THEN add(EmptyDict, "monitorA", condsA)
                       ELSE add(add(EmptyDict, "monitorA", condsA),
                                "monitorB", condsB)
    /\ wait_pc = "idle"
    /\ wait_result = None
    /\ wait_start = 0
    /\ wait_timeout = 0
    /\ now = 0
    /\ registered = <<>>
    /\ polled = [m \in Monitors |-> [path \in Paths |-> {}]]
    /\ polled_monitors = {}
    /\ checked_at = 0

\* a device sends an update of a node
NodeUpdate ==
    /\ wait_pc \in {"idle", "waiting"}
    /\ sent < MaxUpdates
    /\ sent' = sent + 1
    /\ \E m \in Monitors, path \in Paths, val \in NodeValues :
          daq' = [daq EXCEPT ![m][path] = Append(@, val)]
    /\ UNCHANGED <<nodes, conditions, wait_pc, wait_result, wait_start,
                   wait_timeout, now, registered, polled, polled_monitors,
                   checked_at, oscVars, connVars, ntVars, sweepVars, evVars, sigVars,
                   otherVars>>

\* time passes
Tick ==
    /\ wait_pc \in {"idle", "waiting"}
    /\ now < MaxTime
    /\ now' = now + 1
    /\ UNCHANGED <<daq, sent, nodes, conditions, wait_pc, wait_result,
                   wait_start, wait_timeout, registered, polled, polled_monitors,
                   checked_at, oscVars, connVars, ntVars, sweepVars, evVars, sigVars,
                   otherVars>>

\* wait_all, line 234
WaitAllCall ==
    /\ wait_pc = "idle"
    /\ \E timeout \in Timeouts : wait_timeout' = timeout
    /\ wait_start' = now
    /\ wait_pc' = "waiting"
    /\ registered' = conditions
    /\ UNCHANGED <<daq, sent, nodes, conditions, wait_result, now, polled,
                   polled_monitors, checked_at, oscVars, connVars, ntVars, sweepVars,
                   evVars, sigVars, otherVars>>

\* wait_all, lines 235-245: one round of the loop
WaitAllRound ==
    /\ wait_pc = "waiting"
    /\ LET waited == DOMAIN conditions
           polled_nodes == [m \in Monitors |->
                              IF m \in waited THEN poll(nodes[m], daq[m])
                              ELSE nodes[m]]
           all_remaining == [m \in waited |->
                               remaining_conditions(polled_nodes[m],
                                                    conditions[m])]
           remaining == [m \in {k \in waited : all_remaining[k] # EmptyDict}
                           |-> all_remaining[m]]
       IN /\ nodes' = [m \in Monitors |->
                         IF m \in waited
                         THEN popped_nodes(polled_nodes[m], conditions[m])
                         ELSE nodes[m]]
          /\ daq' = [m \in Monitors |->
                       IF m \in waited THEN [path \in Paths |-> <<>>]
                       ELSE daq[m]]
          /\ polled' = [m \in Monitors |->
                          [path \in Paths |->
                             IF m \in waited /\ path \in DOMAIN nodes[m]
                             THEN polled[m][path]
                                    \cup {daq[m][path][i] :
                                            i \in 1..Len(daq[m][path])}
                             ELSE polled[m][path]]]
          /\ polled_monitors' = polled_monitors \cup waited
          /\ IF remaining = EmptyDict
             THEN /\ wait_result' = Some(TRUE)
                  /\ wait_pc' = "returned"
                  /\ UNCHANGED <<conditions, checked_at>>
             ELSE /\ checked_at' = now
                  /\ IF now - wait_start > wait_timeout
                     THEN /\ wait_result' = Some(FALSE)
                          /\ wait_pc' = "returned"
                          /\ UNCHANGED conditions
                     ELSE /\ conditions' = remaining
                          /\ UNCHANGED <<wait_result, wait_pc>>
    /\ UNCHANGED <<sent, wait_start, wait_timeout, now, registered, oscVars, connVars,
                   ntVars, sweepVars, evVars, sigVars, otherVars>>

WaiterNext == NodeUpdate \/ Tick \/ WaitAllCall \/ WaitAllRound

WaiterSpec == WaiterInit /\ [][WaiterNext]_vars

(***************************************************************************)
(* Controller.connect and Controller.disconnect.  The clock counts whole   *)
(* seconds and moves between the calls.                                    *)
(***************************************************************************)
\* Controller.connect, lines 447-450: DeviceCollection.connect is called
connect_checks(ts, t) ==
    ts = None \/ t - ts[1] > CONNECT_CHECK_HOLDOFF

\* Controller.__init__
ConnInit ==
    /\ NtInit
    /\ OtherIdle
    /\ sweep_prog = <<>>
    /\ sweep_pos = 1
    /\ EvIdle
    /\ SigIdle
    /\ OscIdle
    /\ WaiterIdle
    /\ clock = 0
    /\ last_connect_check_ts = None
    /\ connect_last = None
    /\ performed_check = None

\* time.time() moves on
ClockTick ==
    /\ clock < MaxClock
    /\ clock' = clock + 1
    /\ UNCHANGED <<last_connect_check_ts, connect_last, performed_check,
                   oscVars, waiterVars, ntVars, sweepVars, evVars, sigVars,
                   otherVars>>

\* Controller.connect
Connect ==
    /\ LET checks == connect_checks(last_connect_check_ts, clock)
       IN /\ connect_last' = Some([call |-> "connect", at |-> clock,
                                   checked |-> checks,
                                   previous |-> performed_check])
          /\ performed_check' = IF checks THEN Some(clock)
                                ELSE performed_check
    /\ last_connect_check_ts' = Some(clock)
    /\ UNCHANGED <<clock, oscVars, waiterVars, ntVars, sweepVars, evVars,
                   sigVars, otherVars>>

\* Controller.disconnect
Disconnect ==
    /\ last_connect_check_ts' = None
    /\ connect_last' = Some([call |-> "disconnect", at |-> clock,
                             checked |-> FALSE, previous |-> performed_check])
    /\ performed_check' = None
    /\ UNCHANGED <<clock, oscVars, waiterVars, ntVars, sweepVars, evVars,
                   sigVars, otherVars>>

ConnNext == ClockTick \/ Connect \/ Disconnect

ConnSpec == ConnInit /\ [][ConnNext]_vars

(***************************************************************************)
(* Controller._execute_one_step.  A node is the pair of its device and its *)
(* kind; every call of batch_set and of wait_all is one step and is        *)
(* appended to step_log.                                                   *)
(***************************************************************************)
StepDevices == {"dev1", "dev2", "dev3"}
LinkCounts == {0, 1}

\* DeviceZI.is_standalone
is_standalone(device) ==
    links[device].uplinks = 0 /\ links[device].downlinks = 0

\* DeviceZI.is_leader
is_leader(device) ==
    links[device].uplinks = 0 /\ links[device].downlinks > 0

\* DeviceZI.is_follower
is_follower(device) ==
    links[device].uplinks > 0 \/ is_standalone(device)

\* self._devices.leaders
Leaders == {device \in StepDevices : is_leader(device)}

\* self._devices.followers
Followers == {device \in StepDevices : is_follower(device)}

\* the nodes or conditions of one kind of a set of devices
NodesOf(devices, kind) == {<<device, kind>> : device \in devices}

\* mutant: the leaders are started first
execute_one_step_leaders_first ==
    <<"flush_monitor", "leaders_execution", "followers_execution",
      "followers_ready", "followers_start_execution", "wait_execution_to_stop">>

\* _execute_one_step, with _execute_one_step_followers and
\* _execute_one_step_leaders in its place: the calls in their order
execute_one_step ==
    <<"flush_monitor", "followers_execution", "followers_ready",
      "followers_start_execution", "leaders_execution",
      "wait_execution_to_stop">>

\* the call the controller is at
StepAt(call) ==
    /\ step_pc \in 1..Len(execute_one_step)
    /\ execute_one_step[step_pc] = call

\* DeviceZI.__init__, add_downlink and add_uplink; _execute_one_step is
\* entered
StepInit ==
    /\ NtInit
    /\ OtherIdleBut("step")
    /\ sweep_prog = <<>>
    /\ sweep_pos = 1
    /\ EvIdle
    /\ SigIdle
    /\ CtlIdle
    /\ links \in [StepDevices -> [uplinks : LinkCounts, downlinks : LinkCounts]]
    /\ step_pc = 1
    /\ step_log = <<>>

\* _execute_one_step, line 432
FlushMonitor ==
    /\ StepAt("flush_monitor")
    /\ step_pc' = step_pc + 1
    /\ UNCHANGED <<links, step_log, StepFrame>>

\* _execute_one_step_followers, lines 366-370
FollowersExecution ==
    /\ StepAt("followers_execution")
    /\ step_log' = Append(step_log,
                          [call |-> "batch_set",
                           nodes |-> NodesOf(Followers, "execution")])
    /\ step_pc' = step_pc + 1
    /\ UNCHANGED <<links, StepFrame>>

\* _execute_one_step_followers, lines 372-382: the wait ends with the
\* conditions met or with the timeout, and the step goes on in both cases
FollowersReady ==
    /\ StepAt("followers_ready")
    /\ \E fulfilled \in BOOLEAN :
          step_log' = Append(step_log,
                             [call |-> "wait_all",
                              conditions |-> NodesOf(Followers, "ready"),
                              timeout |-> Some(FollowersReadyTimeout),
                              result |-> fulfilled])
    /\ step_pc' = step_pc + 1
    /\ UNCHANGED <<links, StepFrame>>

\* _execute_one_step_followers, lines 386-390
FollowersStartExecution ==
    /\ StepAt("followers_start_execution")
    /\ step_log' = Append(step_log,
                          [call |-> "batch_set",
                           nodes |-> NodesOf(Followers, "start_execution")])
    /\ step_pc' = step_pc + 1
    /\ UNCHANGED <<links, StepFrame>>

\* _execute_one_step_leaders
LeadersExecution ==
    /\ StepAt("leaders_execution")
    /\ step_log' = Append(step_log,
                          [call |-> "batch_set",
                           nodes |-> NodesOf(Leaders, "execution")])
    /\ step_pc' = step_pc + 1
    /\ UNCHANGED <<links, StepFrame>>

\* _wait_execution_to_stop: the timeout is the guarded wait time, which the
\* model leaves open
WaitExecutionToStop ==
    /\ StepAt("wait_execution_to_stop")
    /\ \E fulfilled \in BOOLEAN :
          step_log' = Append(step_log,
                             [call |-> "wait_all",
                              conditions |-> NodesOf(Followers, "done"),
                              timeout |-> None,
                              result |-> fulfilled])
    /\ step_pc' = step_pc + 1
    /\ UNCHANGED <<links, StepFrame>>

StepNext ==
    \/ FlushMonitor
    \/ FollowersExecution
    \/ FollowersReady
    \/ FollowersStartExecution
    \/ LeadersExecution
    \/ WaitExecutionToStop

StepSpec == StepInit /\ [][StepNext]_vars

(***************************************************************************)
(* Controller._upload_awg_programs, from line 228 on.  An upload item      *)
(* tells which of elf, waves and command table it has; a node is the       *)
(* triple of device, AWG index and kind.  The wait is the loop of          *)
(* ResponseWaiter.wait_all on the monitors of the data servers, which      *)
(* monitor the ready nodes of their devices.                               *)
(***************************************************************************)
UploadDevices == {"uhfqa", "hdawg"}
Daqs == {"daqA", "daqB"}
AwgIndices == {0, 1}
\* the instants of the wait that the model tells apart, in seconds
UploadTimes == {0, 5, timeout_s, MaxUploadTime}
UploadItems ==
    [awg_index : AwgIndices, elf : BOOLEAN, waves : BOOLEAN,
     command_table : BOOLEAN]

\* isinstance(device, DeviceUHFQA)
is_uhfqa(device) == device = "uhfqa"

\* the items of the devices, as pairs of device and item
AllItems(data) ==
    UNION {{<<device, data[device][i]>> : i \in 1..Len(data[device])} :
             device \in DOMAIN data}

\* the items of a data server
ItemsOn(data, daqs, server) == {di \in AllItems(data) : daqs[di[1]] = server}

\* device.get_sequencer_paths(awg_index).ready
ready_node(device, awg_index) == <<device, awg_index, "ready">>

\* mutant: the waveforms of the UHFQA go into the batch of the ELF upload
wf_dev_nodes_same_batch(device) == "elf"

\* lines 250-253: the batch that takes the waveforms of a device
wf_dev_nodes(device) == IF is_uhfqa(device) THEN "wf" ELSE "elf"

\* lines 255-264: the waveform and command table nodes of an item
WaveNodes(di) ==
    {<<di[1], di[2].awg_index, kind>> :
       kind \in {k \in {"waves", "command_table"} :
                   \/ k = "waves" /\ di[2].waves
                   \/ k = "command_table" /\ di[2].command_table}}

\* lines 229-264: elf_node_settings
prepare_elf_node_settings(data, daqs) ==
    LET used == {server \in Daqs :
                   \E di \in ItemsOn(data, daqs, server) :
                      di[2].elf \/ wf_dev_nodes(di[1]) = "elf"}
    IN [server \in used |->
          UNION {(IF di[2].elf THEN {<<di[1], di[2].awg_index, "elf">>}
                  ELSE {})
                   \cup (IF wf_dev_nodes(di[1]) = "elf" THEN WaveNodes(di)
                         ELSE {}) : di \in ItemsOn(data, daqs, server)}]

\* lines 229-264: elf_upload_conditions
prepare_elf_upload_conditions(data, daqs) ==
    LET waited(server) == {di \in ItemsOn(data, daqs, server) :
                          di[2].elf /\ is_uhfqa(di[1])}
    IN [server \in {k \in Daqs : waited(k) # {}} |->
          [path \in {ready_node(di[1], di[2].awg_index) : di \in waited(server)}
             |-> Some(1)]]

\* lines 229-264: wf_node_settings
prepare_wf_node_settings(data, daqs) ==
    LET used == {server \in Daqs :
                   \E di \in ItemsOn(data, daqs, server) :
                      wf_dev_nodes(di[1]) = "wf"}
    IN [server \in used |->
          UNION {IF wf_dev_nodes(di[1]) = "wf" THEN WaveNodes(di) ELSE {} :
                   di \in ItemsOn(data, daqs, server)}]

\* the batches of a dict of node settings, one per data server
Batches(settings) ==
    LET order == <<"daqA", "daqB">>
    IN SelectSeq([i \in 1..2 |->
                    IF order[i] \in DOMAIN settings
                    THEN [server |-> order[i], nodes |-> settings[order[i]]]
                    ELSE [server |-> "none", nodes |-> {}]],
                 LAMBDA b : b.server # "none")

\* the AWG programs were prepared and compiled: _upload_awg_programs is at
\* line 228
UploadInit ==
    /\ NtInit
    /\ OtherIdleBut("upload")
    /\ sweep_prog = <<>>
    /\ sweep_pos = 1
    /\ EvIdle
    /\ SigIdle
    /\ CtlIdle
    /\ \E uhfqa_items \in {<<a>> : a \in {x \in UploadItems : x.awg_index = 0}}
                            \cup {<<a, b>> : a \in {x \in UploadItems :
                                                      x.awg_index = 0 /\ x.elf},
                                             b \in {x \in UploadItems :
                                                      x.awg_index = 1 /\ x.waves
                                                        /\ ~x.command_table}},
          hdawg_items \in {<<>>} \cup {<<a>> : a \in {x \in UploadItems :
                                                         x.awg_index = 0
                                                           /\ x.waves
                                                           /\ x.command_table}} :
          awg_data = IF hdawg_items = <<>>
                     THEN [device \in {"uhfqa"} |-> uhfqa_items]
                     ELSE [device \in UploadDevices |->
                             IF device = "uhfqa" THEN uhfqa_items
                             ELSE hdawg_items]
    /\ device_daq \in {f \in [UploadDevices -> Daqs] : f["uhfqa"] = "daqA"}
    /\ upload_pc = "prepare"
    /\ elf_node_settings = <<>>
    /\ elf_upload_conditions = <<>>
    /\ wf_node_settings = <<>>
    /\ upload_log = <<>>
    /\ upload_daq = [server \in Daqs |->
                       [path \in {ready_node(device, awg) :
                                    device \in {d \in UploadDevices :
                                                  device_daq[d] = server},
                                    awg \in AwgIndices} |-> <<>>]]
    /\ upload_sent = 0
    /\ upload_nodes = [server \in Daqs |->
                         [path \in DOMAIN upload_daq[server] |->
                            [values |-> <<>>, last |-> None]]]
    /\ upload_conditions = <<>>
    /\ upload_clock = 0
    /\ upload_start = 0
    /\ upload_reported = {}
    /\ upload_checked_at = 0

\* lines 229-264
UploadPrepare ==
    /\ upload_pc = "prepare"
    /\ elf_node_settings' = prepare_elf_node_settings(awg_data, device_daq)
    /\ elf_upload_conditions'
         = prepare_elf_upload_conditions(awg_data, device_daq)
    /\ wf_node_settings' = prepare_wf_node_settings(awg_data, device_daq)
    /\ upload_pc' = "flush"
    /\ UNCHANGED <<awg_data, device_daq, upload_log, upload_daq, upload_sent,
                   upload_nodes, upload_conditions, upload_clock,
                   upload_start, upload_reported, upload_checked_at,
                   UploadFrame>>

\* lines 266-268, with NodeMonitor.flush
UploadFlush ==
    /\ upload_pc = "flush"
    /\ upload_nodes' = [server \in Daqs |->
                          IF server \in DOMAIN elf_upload_conditions
                          THEN [path \in DOMAIN upload_nodes[server] |->
                                  [upload_nodes[server][path]
                                     EXCEPT !.values = <<>>]]
                          ELSE upload_nodes[server]]
    /\ upload_pc' = "elf"
    /\ UNCHANGED <<awg_data, device_daq, elf_node_settings,
                   elf_upload_conditions, wf_node_settings, upload_log,
                   upload_daq, upload_sent, upload_conditions, upload_clock,
                   upload_start, upload_reported, upload_checked_at,
                   UploadFrame>>

\* lines 272-283, with ResponseWaiter.add and line 234 of wait_all
UploadElf ==
    /\ upload_pc = "elf"
    /\ upload_log' = upload_log \o Batches(elf_node_settings)
    /\ IF elf_upload_conditions # EmptyDict
       THEN /\ upload_conditions' = elf_upload_conditions
            /\ upload_start' = upload_clock
            /\ upload_pc' = "wait"
       ELSE /\ upload_pc' = "waveforms"
            /\ UNCHANGED <<upload_conditions, upload_start>>
    /\ UNCHANGED <<awg_data, device_daq, elf_node_settings,
                   elf_upload_conditions, wf_node_settings, upload_daq,
                   upload_sent, upload_nodes, upload_clock, upload_reported,
                   upload_checked_at, UploadFrame>>

\* a sequencer with a program to load reports its ready node
ReadyUpdate ==
    /\ upload_pc \in {"flush", "elf", "wait"}
    /\ upload_sent < MaxUpdates
    /\ upload_sent' = upload_sent + 1
    /\ \E server \in DOMAIN elf_upload_conditions :
          \E path \in DOMAIN elf_upload_conditions[server],
             val \in NodeValues :
             upload_daq' = [upload_daq EXCEPT ![server][path] = Append(@, val)]
    /\ UNCHANGED <<awg_data, device_daq, upload_pc, elf_node_settings,
                   elf_upload_conditions, wf_node_settings, upload_log,
                   upload_nodes, upload_conditions, upload_clock,
                   upload_start, upload_reported, upload_checked_at,
                   UploadFrame>>

\* time passes during the wait, up to the next of the instants told apart
UploadTick ==
    /\ upload_pc = "wait"
    /\ upload_clock < MaxUploadTime
    /\ upload_clock' = CHOOSE t \in UploadTimes :
                           /\ t > upload_clock
                           /\ \A u \in UploadTimes : u > upload_clock => t <= u
    /\ UNCHANGED <<awg_data, device_daq, upload_pc, elf_node_settings,
                   elf_upload_conditions, wf_node_settings, upload_log,
                   upload_daq, upload_sent, upload_nodes, upload_conditions,
                   upload_start, upload_reported, upload_checked_at,
                   UploadFrame>>

\* lines 284-287, with one round of the loop of wait_all
UploadWaitRound ==
    /\ upload_pc = "wait"
    /\ LET waited == DOMAIN upload_conditions
           polled_nodes == [server \in Daqs |->
                              IF server \in waited
                              THEN poll(upload_nodes[server], upload_daq[server])
                              ELSE upload_nodes[server]]
           all_remaining == [server \in waited |->
                               remaining_conditions(polled_nodes[server],
                                                    upload_conditions[server])]
           remaining == [server \in {k \in waited : all_remaining[k] # EmptyDict}
                           |-> all_remaining[server]]
       IN /\ upload_nodes' = [server \in Daqs |->
                                IF server \in waited
                                THEN popped_nodes(polled_nodes[server],
                                                  upload_conditions[server])
                                ELSE upload_nodes[server]]
          /\ upload_daq' = [server \in Daqs |->
                              IF server \in waited
                              THEN [path \in DOMAIN upload_daq[server] |-> <<>>]
                              ELSE upload_daq[server]]
          /\ upload_reported'
               = upload_reported
                   \cup UNION {{path \in DOMAIN upload_daq[server] :
                                  \E i \in 1..Len(upload_daq[server][path]) :
                                     upload_daq[server][path][i] = 1} :
                                 server \in waited}
          /\ IF remaining = EmptyDict
             THEN /\ upload_pc' = "waveforms"
                  /\ UNCHANGED <<upload_conditions, upload_checked_at>>
             ELSE /\ upload_checked_at' = upload_clock
                  /\ IF upload_clock - upload_start > timeout_s
                     THEN /\ upload_pc' = "raised"
                          /\ UNCHANGED upload_conditions
                     ELSE /\ upload_conditions' = remaining
                          /\ UNCHANGED upload_pc
    /\ UNCHANGED <<awg_data, device_daq, elf_node_settings,
                   elf_upload_conditions, wf_node_settings, upload_log,
                   upload_sent, upload_clock, upload_start, UploadFrame>>

\* lines 288-293
UploadWaveforms ==
    /\ upload_pc = "waveforms"
    /\ upload_log' = upload_log \o Batches(wf_node_settings)
    /\ upload_pc' = "done"
    /\ UNCHANGED <<awg_data, device_daq, elf_node_settings,
                   elf_upload_conditions, wf_node_settings, upload_daq,
                   upload_sent, upload_nodes, upload_conditions, upload_clock,
                   upload_start, upload_reported, upload_checked_at,
                   UploadFrame>>

UploadNext ==
    \/ UploadPrepare
    \/ UploadFlush
    \/ UploadElf
    \/ ReadyUpdate
    \/ UploadTick
    \/ UploadWaitRound
    \/ UploadWaveforms

UploadSpec == UploadInit /\ [][UploadNext]_vars

(***************************************************************************)
(* ConditionsChecker.check_all.  The conditions of a monitor are the pairs *)
(* of path and expected value in the order of the dict; an expected value  *)
(* is None, one value or a list of values.                                 *)
(***************************************************************************)
\* an expected value: None, a single value, or a list of values
CheckExpected ==
    {[kind |-> "single", value |-> None], [kind |-> "single", value |-> Some(1)],
     [kind |-> "list", value |-> <<Some(0), Some(1)>>],
     [kind |-> "list", value |-> <<>>]}

\* lines 123-124: expected if isinstance(expected, Iterable) else [expected]
all_expected(expected) ==
    IF expected.kind = "list" THEN expected.value ELSE <<expected.value>>

\* mutant: only the first expected value counts
is_expected_of_first(val, expected_list) ==
    /\ expected_list # <<>>
    /\ (expected_list[1] = None \/ Some(val) = expected_list[1])

\* _is_expected, without the values with a tolerance
is_expected_of(val, expected_list) ==
    \E i \in 1..Len(expected_list) :
       expected_list[i] = None \/ Some(val) = expected_list[i]

\* check_last_for_conditions, lines 120-129: the condition fails
check_fails(monitor_nodes, path, expected) ==
    \/ path \notin DOMAIN monitor_nodes
    \/ monitor_nodes[path].last = None
    \/ ~is_expected_of(monitor_nodes[path].last[1], all_expected(expected))

\* NodeMonitor.check_last_for_conditions: the position of the first failing
\* condition, 0 for None
check_last_for_conditions(monitor_nodes, daq_conditions) ==
    IF \E i \in 1..Len(daq_conditions) :
          check_fails(monitor_nodes, daq_conditions[i][1], daq_conditions[i][2])
    THEN CHOOSE i \in 1..Len(daq_conditions) :
            /\ check_fails(monitor_nodes, daq_conditions[i][1],
                           daq_conditions[i][2])
            /\ \A j \in 1..(i - 1) :
                  ~check_fails(monitor_nodes, daq_conditions[j][1],
                               daq_conditions[j][2])
    ELSE 0

\* the monitors in the order of ConditionsChecker._conditions
MonitorOrder == <<"monitorA", "monitorB">>

\* ConditionsChecker.check_all
check_all(all_nodes, all_conditions) ==
    LET failed_path(m) == check_last_for_conditions(all_nodes[m], all_conditions[m])
        failing == {i \in 1..Len(MonitorOrder) :
                      /\ MonitorOrder[i] \in DOMAIN all_conditions
                      /\ failed_path(MonitorOrder[i]) # 0}
    IN IF failing = {} THEN <<None, None>>
       ELSE LET first == CHOOSE i \in failing : \A j \in failing : i <= j
                m == MonitorOrder[first]
            IN <<Some(all_conditions[m][failed_path(m)][1]),
                 Some(all_conditions[m][failed_path(m)][2])>>

\* the dicts of conditions of one monitor: up to two paths, in either order
CheckConditionLists ==
    {<<>>}
      \cup {<<<<path, expected>>>> : path \in Paths, expected \in CheckExpected}
      \cup {<<<<pp[1], e1>>, <<pp[2], e2>>>> :
              pp \in {qq \in Paths \X Paths : qq[1] # qq[2]},
              e1 \in CheckExpected, e2 \in CheckExpected}

\* NodeMonitor.__init__ and add_nodes, ConditionsChecker.__init__ and add
CheckInit ==
    /\ NtInit
    /\ OtherIdleBut("check")
    /\ sweep_prog = <<>>
    /\ sweep_pos = 1
    /\ EvIdle
    /\ SigIdle
    /\ CtlIdle
    /\ chk_daq = [m \in Monitors |-> [path \in Paths |-> <<>>]]
    /\ chk_sent = 0
    /\ \E paths \in SUBSET Paths :
          chk_nodes = [m \in Monitors |->
                         [path \in IF m = "monitorA" THEN paths
                                   ELSE {"/dev1/path1"} |->
                            [values |-> <<>>, last |-> None]]]
    /\ \E condsA \in CheckConditionLists,
          condsB \in {<<>>, <<<<"/dev1/path1",
                               [kind |-> "single", value |-> Some(1)]>>>>} :
          chk_conditions = [m \in Monitors |->
                              IF m = "monitorA" THEN condsA ELSE condsB]
    /\ chk_result = None

\* a device sends an update of a node
CheckNodeUpdate ==
    /\ chk_sent < MaxUpdates
    /\ chk_sent' = chk_sent + 1
    /\ \E m \in Monitors, path \in Paths, val \in NodeValues :
          chk_daq' = [chk_daq EXCEPT ![m][path] = Append(@, val)]
    /\ UNCHANGED <<chk_nodes, chk_conditions, chk_result, CheckFrame>>

\* NodeMonitor.poll, called by the controller between two checks
CheckPoll ==
    /\ \E m \in Monitors :
          /\ \E path \in Paths : chk_daq[m][path] # <<>>
          /\ chk_nodes' = [chk_nodes EXCEPT ![m] = poll(@, chk_daq[m])]
          /\ chk_daq' = [chk_daq EXCEPT ![m] = [path \in Paths |-> <<>>]]
    /\ UNCHANGED <<chk_sent, chk_conditions, chk_result, CheckFrame>>

\* ConditionsChecker.check_all
CheckAll ==
    /\ chk_result' = Some(check_all(chk_nodes, chk_conditions))
    /\ UNCHANGED <<chk_daq, chk_sent, chk_nodes, chk_conditions, CheckFrame>>

CheckNext == CheckNodeUpdate \/ CheckPoll \/ CheckAll

CheckSpec == CheckInit /\ [][CheckNext]_vars

(***************************************************************************)
(* adapt_precompensations.  A precompensation is None or a dict with some  *)
(* of the keys exponential (a list), high_pass, bounce and FIR; a filter a *)
(* signal was given is "set", one added for the timing is "zero".          *)
(***************************************************************************)
SignalIds == <<"s1", "s2", "s3">>
FilterKeys == {"high_pass", "bounce", "FIR"}

\* the precompensations a signal can be given
Precompensations ==
    {None}
      \cup {Some(pc) : pc \in UNION {[keys -> {"set"}] : keys \in SUBSET FilterKeys}}
      \cup {Some(Merge(pc, [key \in {"exponential"} |-> [i \in 1..n |-> "set"]])) :
              pc \in UNION {[keys -> {"set"}] : keys \in SUBSET FilterKeys},
              n \in 0..MaxExponentials}

\* the precompensations the third signal can be given
ThirdPrecompensations ==
    {None, Some([key \in {"bounce", "FIR"} |-> "set"]),
     Some([key \in {"high_pass"} |-> "set"]),
     Some(Merge([key \in {"high_pass"} |-> "set"],
                [key \in {"exponential"} |-> <<"set">>]))}

\* precompensation.get(key) is neither None nor empty
truthy(pc, key) ==
    /\ key \in DOMAIN pc
    /\ key = "exponential" => Len(pc[key]) > 0

\* precompensation_is_nonzero
precompensation_is_nonzero(precompensation) ==
    /\ precompensation # None
    /\ \E key \in FilterKeys \cup {"exponential"} : truthy(precompensation[1], key)

\* precompensation_delay_samples
precompensation_delay_samples(precompensation) ==
    IF ~precompensation_is_nonzero(precompensation) THEN 0
    ELSE 72
           + (IF "exponential" \in DOMAIN precompensation[1]
              THEN 88 * Len(precompensation[1]["exponential"]) ELSE 0)
           + (IF "high_pass" \in DOMAIN precompensation[1] THEN 96 ELSE 0)
           + (IF "bounce" \in DOMAIN precompensation[1] THEN 32 ELSE 0)
           + (IF "FIR" \in DOMAIN precompensation[1] THEN 136 ELSE 0)

\* precompensations.get(signal_id) or {}
or_empty(precompensation) ==
    IF precompensation = None THEN EmptyDict ELSE precompensation[1]

\* the largest of a set of naturals, 0 for the empty set
Largest(S) == IF S = {} THEN 0 ELSE CHOOSE n \in S : \A k \in S : k <= n

\* _adapt_precompensations_of_awg, lines 59-68: a signal differs from the
\* first one in the high pass
high_pass_differs(signal_ids, pcs) ==
    \E i \in 2..Len(signal_ids) :
       truthy(or_empty(pcs[signal_ids[i]]), "high_pass")
         # truthy(or_empty(pcs[signal_ids[1]]), "high_pass")

\* mutant: no zero effect filter is added
new_pc_unchanged(old_pc, number_of_exponentials, has_bounce, has_FIR) == old_pc

\* _adapt_precompensations_of_awg, lines 77-88: the precompensation of one
\* signal with the zero effect filters added
new_pc(old_pc, number_of_exponentials, has_bounce, has_FIR) ==
    LET exp == IF "exponential" \in DOMAIN old_pc THEN old_pc["exponential"]
               ELSE <<>>
        with_exp ==
            IF number_of_exponentials > 0
            THEN Merge(old_pc,
                       [key \in {"exponential"} |->
                          exp \o [i \in 1..(number_of_exponentials - Len(exp))
                                    |-> "zero"]])
            ELSE old_pc
        with_bounce ==
            IF has_bounce /\ ~truthy(with_exp, "bounce")
            THEN Merge(with_exp, [key \in {"bounce"} |-> "zero"])
            ELSE with_exp
    IN IF has_FIR /\ ~truthy(with_bounce, "FIR")
       THEN Merge(with_bounce, [key \in {"FIR"} |-> "zero"])
       ELSE with_bounce

\* _adapt_precompensations_of_awg: the dict afterwards and whether it raised
adapt_precompensations_of_awg(signal_ids, pcs) ==
    LET ids == {signal_ids[i] : i \in 1..Len(signal_ids)}
        number_of_exponentials ==
            Largest({Len(or_empty(pcs[id])["exponential"]) :
                       id \in {k \in ids :
                                 "exponential" \in DOMAIN or_empty(pcs[k])}})
        has_bounce == \E id \in ids : truthy(or_empty(pcs[id]), "bounce")
        has_FIR == \E id \in ids : truthy(or_empty(pcs[id]), "FIR")
    IN IF high_pass_differs(signal_ids, pcs)
       THEN [raised |-> TRUE, precompensations |-> pcs]
       ELSE IF has_bounce \/ has_FIR \/ number_of_exponentials > 0
       THEN [raised |-> FALSE,
             precompensations |->
               [id \in DOMAIN pcs |->
                  IF id \in ids
                  THEN Some(new_pc(or_empty(pcs[id]), number_of_exponentials,
                                   has_bounce, has_FIR))
                  ELSE pcs[id]]]
       ELSE [raised |-> FALSE, precompensations |-> pcs]

\* adapt_precompensations, lines 96-104: the AWG of a signal
awg_of(signal_info) ==
    <<signal_info.device_id,
      IF signal_info.device_type = "UHFQA" THEN 0
      ELSE signal_info.channel \div signal_info.channels_per_awg>>

\* adapt_precompensations, lines 93-105: signals_by_awg, as the list of the
\* lists of signals in the order of the dict
signals_by_awg(infos) ==
    LET firsts == SelectSeq(SignalIds,
                            LAMBDA id : \A other \in DOMAIN infos :
                               (awg_of(infos[other]) = awg_of(infos[id]))
                                 => \A i, j \in 1..Len(SignalIds) :
                                       (SignalIds[i] = id
                                          /\ SignalIds[j] = other) => i <= j)
    IN [g \in 1..Len(firsts) |->
          SelectSeq(SignalIds,
                    LAMBDA id : awg_of(infos[id]) = awg_of(infos[firsts[g]]))]

\* adapt_precompensations, lines 106-108: the groups from position g on
RECURSIVE adapt_from(_, _, _)
adapt_from(groups, g, pcs) ==
    IF g > Len(groups) THEN [raised |-> FALSE, precompensations |-> pcs]
    ELSE IF Len(groups[g]) > 1
    THEN LET adapted == adapt_precompensations_of_awg(groups[g], pcs)
         IN IF adapted.raised THEN adapted
            ELSE adapt_from(groups, g + 1, adapted.precompensations)
    ELSE adapt_from(groups, g + 1, pcs)

\* adapt_precompensations
adapt_precompensations(pcs, infos) == adapt_from(signals_by_awg(infos), 1, pcs)

\* the precompensations and the signals as read from the experiment
PrecompInit ==
    /\ NtInit
    /\ OtherIdleBut("precomp")
    /\ sweep_prog = <<>>
    /\ sweep_pos = 1
    /\ EvIdle
    /\ SigIdle
    /\ CtlIdle
    /\ \E first \in Precompensations, second \in Precompensations,
          third \in ThirdPrecompensations :
          precompensations = [id \in {"s1", "s2", "s3"} |->
                                IF id = "s1" THEN first
                                ELSE IF id = "s2" THEN second ELSE third]
    /\ \E device_type \in {"UHFQA", "HDAWG"}, third \in {"dev1", "dev2"} :
          signal_infos =
            [id \in {"s1", "s2", "s3"} |->
               [device_id |-> IF id = "s3" THEN third ELSE "dev1",
                device_type |-> device_type,
                channels_per_awg |-> 2,
                channel |-> IF id = "s1" THEN 0
                            ELSE IF id = "s2" THEN 1 ELSE 2]]
    /\ adapt_result = "none"
    /\ precompensations_given = precompensations

\* adapt_precompensations
AdaptPrecompensations ==
    /\ adapt_result = "none"
    /\ LET adapted == adapt_precompensations(precompensations, signal_infos)
       IN /\ precompensations' = adapted.precompensations
          /\ adapt_result' = IF adapted.raised THEN "RuntimeError"
                             ELSE "returned"
    /\ UNCHANGED <<signal_infos, precompensations_given, PrecompFrame>>

PrecompNext == AdaptPrecompensations

PrecompSpec == PrecompInit /\ [][PrecompNext]_vars

(***************************************************************************)
(* Match.add.  An object is the record of its class and of its state; the  *)
(* state of an object that is not a Case is of no meaning and is 0.        *)
(***************************************************************************)
\* the largest state of a branch
MaxCaseState == 3
CaseStates == 0..MaxCaseState
MatchObjects ==
    [kind : {"Case"}, state : CaseStates]
      \cup [kind : {"Section", "PlayPulse"}, state : {0}]

\* isinstance(obj, Section): a Case is a Section, an operation is not
is_section(obj) == obj.kind \in {"Case", "Section"}

\* Section.sections: the children that are sections, in their order
Section_sections(children) == SelectSeq(children, is_section)

\* mutant: the states of the branches are not compared
Match_add_raises_non_case_only(children, obj) ==
    obj.kind # "Case"

\* Match.add: the two conditions under which it raises LabOneQException
Match_add_raises(children, obj) ==
    \/ obj.kind # "Case"
    \/ \E i \in 1..Len(Section_sections(children)) :
          Section_sections(children)[i].state = obj.state

\* Section.add
Section_add(children, obj) == Append(children, obj)

\* Match(): the children list is empty
MatchInit ==
    /\ NtInit
    /\ OtherIdleBut("match")
    /\ sweep_prog = <<>> /\ sweep_pos = 1
    /\ EvIdle /\ SigIdle /\ CtlIdle
    /\ match_children = <<>>
    /\ match_before = <<>>
    /\ match_arg = None
    /\ match_raised = FALSE

\* Match.add
MatchAdd ==
    \E obj \in MatchObjects :
       /\ match_before' = match_children
       /\ match_arg' = Some(obj)
       /\ match_raised' = Match_add_raises(match_children, obj)
       /\ match_children' = IF Match_add_raises(match_children, obj)
                            THEN match_children
                            ELSE Section_add(match_children, obj)
       /\ UNCHANGED MatchFrame

MatchNext == MatchAdd

MatchSpec == MatchInit /\ [][MatchNext]_vars

(***************************************************************************)
(* Controller._execute_compiled_impl.  Every call it makes is one step,    *)
(* which returns or raises; exec_log lists the calls with their outcomes.  *)
(***************************************************************************)
\* the largest number of devices
MaxExecDevices == 2

\* mutant: no finally clause, an exception leaves the function at once
after_raise_in_try_no_finally == "raised"

\* lines 510-524: an exception raised in the try block is followed by the
\* finally clause
after_raise_in_try == "stop_monitor"

\* lines 526-532: what follows the finally clause, on_experiment_end,
\* shut_down or disconnect, when no exception is pending
after_call(call) ==
    IF call = "stop_monitor" THEN "on_experiment_end"
    ELSE IF call = "on_experiment_end" /\ run_parameters.shut_down
    THEN "shut_down"
    ELSE IF call \in {"on_experiment_end", "shut_down"}
            /\ run_parameters.disconnect
    THEN "disconnect"
    ELSE "returned"

\* a call outside the try block: it returns and next_pc follows, or it
\* raises and the exception leaves the function
CallOutsideTry(call, next_pc) ==
    /\ exec_pc = call
    /\ \E raises \in BOOLEAN :
          /\ exec_log' = Append(exec_log, [call |-> call, raised |-> raises])
          /\ exec_pc' = IF raises THEN "raised" ELSE next_pc
    /\ UNCHANGED <<run_parameters, exec_devices, exec_checked, exec_pending,
                   ExecFrame>>

\* a call in the try block: it returns and next_pc follows, or it raises and
\* the finally clause follows with the exception pending
CallInTry(call, next_pc) ==
    /\ exec_pc = call
    /\ \E raises \in BOOLEAN :
          /\ exec_log' = Append(exec_log, [call |-> call, raised |-> raises])
          /\ exec_pc' = IF raises THEN after_raise_in_try ELSE next_pc
          /\ exec_pending' = raises
    /\ UNCHANGED <<run_parameters, exec_devices, exec_checked, ExecFrame>>

\* the controller before execute_compiled
ExecInit ==
    /\ NtInit
    /\ OtherIdleBut("exec")
    /\ sweep_prog = <<>> /\ sweep_pos = 1
    /\ EvIdle /\ SigIdle /\ CtlIdle
    /\ run_parameters \in [shut_down : BOOLEAN, disconnect : BOOLEAN]
    /\ exec_devices \in 0..MaxExecDevices
    /\ exec_checked = 0
    /\ exec_pc = "connect"
    /\ exec_pending = FALSE
    /\ exec_log = <<>>

\* line 508
ExecConnect == CallOutsideTry("connect", "prepare_result_shapes")

\* line 509
ExecPrepareResultShapes ==
    CallOutsideTry("prepare_result_shapes", "start_monitor")

\* line 511
ExecStartMonitor == CallInTry("start_monitor", "initialize_devices")

\* line 512
ExecInitializeDevices == CallInTry("initialize_devices", "near_time_run")

\* lines 515-520
ExecNearTimeRun ==
    CallInTry("near_time_run",
              IF exec_devices = 0 THEN "stop_monitor" ELSE "check_errors")

\* lines 521-522: check_errors of the next device
ExecCheckErrors ==
    /\ exec_pc = "check_errors"
    /\ exec_checked' = exec_checked + 1
    /\ \E raises \in BOOLEAN :
          /\ exec_log' = Append(exec_log,
                                [call |-> "check_errors", raised |-> raises])
          /\ exec_pc' = IF raises THEN after_raise_in_try
                        ELSE IF exec_checked + 1 = exec_devices
                        THEN "stop_monitor"
                        ELSE "check_errors"
          /\ exec_pending' = raises
    /\ UNCHANGED <<run_parameters, exec_devices, ExecFrame>>

\* lines 523-524: the finally clause; a pending exception is raised again
\* after it
ExecStopMonitor ==
    /\ exec_pc = "stop_monitor"
    /\ \E raises \in BOOLEAN :
          /\ exec_log' = Append(exec_log,
                                [call |-> "stop_monitor", raised |-> raises])
          /\ exec_pc' = IF raises \/ exec_pending THEN "raised"
                        ELSE after_call("stop_monitor")
    /\ exec_pending' = FALSE
    /\ UNCHANGED <<run_parameters, exec_devices, exec_checked, ExecFrame>>

\* line 526
ExecOnExperimentEnd ==
    CallOutsideTry("on_experiment_end", after_call("on_experiment_end"))

\* lines 528-529
ExecShutDown == CallOutsideTry("shut_down", after_call("shut_down"))

\* lines 531-532
ExecDisconnect == CallOutsideTry("disconnect", "returned")

ExecNext ==
    \/ ExecConnect \/ ExecPrepareResultShapes \/ ExecStartMonitor
    \/ ExecInitializeDevices \/ ExecNearTimeRun \/ ExecCheckErrors
    \/ ExecStopMonitor \/ ExecOnExperimentEnd \/ ExecShutDown
    \/ ExecDisconnect

ExecSpec == ExecInit /\ [][ExecNext]_vars

(***************************************************************************)
(* Controller._awg_compile.  The calling thread submits one worker per     *)
(* item, waits for all of them and collects their exceptions; the workers  *)
(* of the pool run in any interleaving with it and with each other.  A     *)
(* worker is named by its position in the list futures.                    *)
(***************************************************************************)
\* the largest number of compile items
MaxItems == 3
CompileDevices == {"dev1", "dev2"}
\* the number of threads of the pool: None leaves it to the pool
MaxWorkers == {None, Some(1), Some(2)}

\* lines 313-314: the items of awg_data in the order of the two loops; data
\* is the list of the devices, each with the number of its items
RECURSIVE ItemsOfData(_)
ItemsOfData(data) ==
    IF data = <<>> THEN <<>>
    ELSE [i \in 1..data[1].count |->
            [device |-> data[1].device, awg_index |-> i - 1]]
           \o ItemsOfData(Tail(data))

\* awg_data: one or two devices, each with up to two items
AwgCompileData ==
    {data \in UNION {[1..n -> [device : CompileDevices, count : 0..2]] :
                       n \in 1..2} :
       /\ \A i, j \in DOMAIN data : i # j => data[i].device # data[j].device
       /\ Len(ItemsOfData(data)) <= MaxItems}

\* device.compile_seqc: the elf of an item
compile_seqc(item) == [elf_of |-> item]

\* line 312: the item a worker was submitted with
worker_item(worker) == worker

\* the workers that have returned or raised
Finished == {w \in DOMAIN futures : futures[w] \in {"done", "raised"}}

\* mutant: the caller does not wait for the workers
all_done_no_wait == TRUE

\* line 316, concurrent.futures.wait: every submitted worker has finished
all_done == Finished = DOMAIN futures

\* before the call: no item has an elf
CompileInit ==
    /\ NtInit
    /\ OtherIdleBut("compile")
    /\ sweep_prog = <<>> /\ sweep_pos = 1
    /\ EvIdle /\ SigIdle /\ CtlIdle
    /\ \E data \in AwgCompileData :
          /\ compile_items = ItemsOfData(data)
          /\ item_elf = [i \in 1..Len(ItemsOfData(data)) |-> None]
    /\ max_workers \in MaxWorkers
    /\ compile_pc = "submit"
    /\ futures = <<>>
    /\ elf_writes = {}

\* lines 311-315: the next worker is submitted
Submit ==
    /\ compile_pc = "submit"
    /\ Len(futures) < Len(compile_items)
    /\ futures' = Append(futures, "pending")
    /\ UNCHANGED <<compile_items, max_workers, compile_pc, item_elf,
                   elf_writes, CompileFrame>>

\* lines 311-316: all workers are submitted, the caller waits
SubmitEnd ==
    /\ compile_pc = "submit"
    /\ Len(futures) = Len(compile_items)
    /\ compile_pc' = "wait"
    /\ UNCHANGED <<compile_items, max_workers, futures, item_elf, elf_writes,
                   CompileFrame>>

\* a free thread of the pool takes the pending worker submitted first
WorkerStart ==
    /\ \E w \in DOMAIN futures :
          /\ futures[w] = "pending"
          /\ \A v \in 1..(w - 1) : futures[v] # "pending"
          /\ IF max_workers = None THEN TRUE
             ELSE Cardinality({v \in DOMAIN futures :
                                 futures[v] \in {"running", "compiled"}})
                    < max_workers[1]
          /\ futures' = [futures EXCEPT ![w] = "running"]
    /\ UNCHANGED <<compile_items, max_workers, compile_pc, item_elf,
                   elf_writes, CompileFrame>>

\* lines 300-302: compile_seqc returns, or raises and ends the worker
WorkerCompile ==
    /\ \E w \in DOMAIN futures :
          /\ futures[w] = "running"
          /\ \E outcome \in {"compiled", "raised"} :
                futures' = [futures EXCEPT ![w] = outcome]
    /\ UNCHANGED <<compile_items, max_workers, compile_pc, item_elf,
                   elf_writes, CompileFrame>>

\* line 300: the worker assigns the elf of its item and ends
WorkerAssign ==
    /\ \E w \in DOMAIN futures :
          /\ futures[w] = "compiled"
          /\ item_elf' = [item_elf EXCEPT ![worker_item(w)] =
                            Some(compile_seqc(compile_items[w]))]
          /\ elf_writes' = elf_writes \cup {<<w, worker_item(w)>>}
          /\ futures' = [futures EXCEPT ![w] = "done"]
    /\ UNCHANGED <<compile_items, max_workers, compile_pc, CompileFrame>>

\* lines 316-326: the wait is over, the exceptions are collected
WaitEnd ==
    /\ compile_pc = "wait"
    /\ all_done
    /\ compile_pc' = IF \E w \in DOMAIN futures : futures[w] = "raised"
                     THEN "LabOneQControllerException"
                     ELSE "returned"
    /\ UNCHANGED <<compile_items, max_workers, futures, item_elf, elf_writes,
                   CompileFrame>>

CompileNext ==
    \/ Submit \/ SubmitEnd \/ WorkerStart \/ WorkerCompile \/ WorkerAssign
    \/ WaitEnd

CompileSpec == CompileInit /\ [][CompileNext]_vars

(***************************************************************************)
(* Properties of the near-time executor                                    *)
(***************************************************************************)
\* the fingerprint of the current near-time parameters
Fingerprint == Restrict(nt_parameter_values, required_parameters[1])

\* this step is an entry of rt_handler
RtEntered == visits' = visits + 1

\* this step is an entry of rt_handler that finds its fingerprint in the cache
RtEnteredCached ==
    /\ RtEntered
    /\ required_parameters # None
    /\ Fingerprint \in DOMAIN compiler_output_by_param_values

\* C1: RealtimeCompiler.run is invoked at most once per distinct fingerprint
\* (no two runs of the log have the same fingerprint), and a real-time
\* section entered with a fingerprint that is a cache key runs no compile.
C1_AtMostOneCompilePerFingerprint ==
    /\ [](\A i, j \in 1..Len(runLog) :
            i # j => runLog[i].fingerprint # runLog[j].fingerprint)
    /\ [][RtEnteredCached => runLog' = runLog]_vars

C1_Witness ==
    /\ visits = 2
    /\ Len(runLog) = 1
    /\ required_parameters = Some({"a"})
    /\ Len(iteration_stack) = 2

\* C2: when the nested sweep over a and b has ended and every compile
\* queried only a, RealtimeCompiler.run was invoked exactly twice, once for
\* a=1 and once for a=2, and the other two of the four visits were cache hits.
C2_NestedSweepCompilesTwice ==
    (/\ SweepDone
     /\ ~failed
     /\ \A i \in 1..Len(runLog) : runLog[i].queries = {"a"})
    => /\ visits = 4
       /\ Len(runLog) = 2
       /\ {runLog[i].fingerprint : i \in 1..Len(runLog)}
             = {{<<"a", 1>>}, {<<"a", 2>>}}
       /\ visits - Len(runLog) = 2

C2_Witness ==
    /\ SweepDone
    /\ sweep_prog = NestedSweep("b", "a")
    /\ ~failed
    /\ Len(runLog) = 2
    /\ \A i \in 1..Len(runLog) : runLog[i].queries = {"a"}

\* C3: an rt_handler entry whose fingerprint is in the cache calls neither
\* the compiler nor the linker, leaves the cache and the required-parameter
\* set unchanged, adds the cached output's total_execution_time to the
\* combined output and makes the cached output the last compiler output.
C3_CacheHitEffect ==
    [][RtEnteredCached =>
         LET cached == compiler_output_by_param_values[Fingerprint]
         IN /\ runLog' = runLog
            /\ linkCalls' = linkCalls
            /\ lastLink' = None
            /\ compiler_output_by_param_values' = compiler_output_by_param_values
            /\ required_parameters' = required_parameters
            /\ combined_compiler_output'[1].total_execution_time =
                 combined_compiler_output[1].total_execution_time
                    + cached.total_execution_time
            /\ last_compiler_output' = Some(cached)]_vars

\* a hit on the older of two cached outputs
C3_Witness ==
    /\ visits = 3
    /\ Len(runLog) = 2
    /\ ~failed
    /\ last_compiler_output = Some(runLog[1].out)

\* C8: a compile that runs when the required-parameter set is fixed and
\* queries a different set of names makes rt_handler fail, with the cache,
\* the combined output, the last compiler output and the required-parameter
\* set as they were before the entry.
C8_MismatchFailsBeforeCache ==
    [][(/\ RtEntered
        /\ Len(runLog') = Len(runLog) + 1
        /\ required_parameters # None
        /\ runLog'[Len(runLog')].queries # required_parameters[1])
       => /\ failed'
          /\ compiler_output_by_param_values' = compiler_output_by_param_values
          /\ combined_compiler_output' = combined_compiler_output
          /\ last_compiler_output' = last_compiler_output
          /\ required_parameters' = required_parameters]_vars

C8_Witness ==
    /\ failed
    /\ Len(runLog) = 2
    /\ runLog[2].queries # required_parameters[1]
    /\ DOMAIN compiler_output_by_param_values = {runLog[1].fingerprint}

\* C9: the required-parameter set is None until the first compile has
\* completed, is then the set of names that compile queried, and never
\* changes afterwards.
C9_RequiredWriteOnce ==
    /\ [](IF runLog = <<>>
          THEN required_parameters = None
          ELSE required_parameters = Some(runLog[1].queries))
    /\ [][required_parameters # None
            => required_parameters' = required_parameters]_vars

C9_Witness ==
    /\ Len(runLog) = 2
    /\ failed
    /\ required_parameters = Some(runLog[1].queries)
    /\ runLog[2].queries # runLog[1].queries

\* C10: a fingerprint that is a key of the cache stays a key of the cache,
\* mapped to the same compiler output, in every later state.
C10_CacheEntriesImmutable ==
    [][\A f \in DOMAIN compiler_output_by_param_values :
          /\ f \in DOMAIN compiler_output_by_param_values'
          /\ compiler_output_by_param_values'[f]
                = compiler_output_by_param_values[f]]_vars

C10_Witness ==
    /\ Cardinality(DOMAIN compiler_output_by_param_values) = 2
    /\ visits = 3
    /\ iteration_stack = <<>>

\* this step is an entry of rt_handler whose compile passed the assertion
RtEnteredCompiled ==
    /\ RtEntered
    /\ Len(runLog') = Len(runLog) + 1
    /\ ~failed'

\* the rt_linker call C19 describes for a compile
LinkedOnce ==
    LET out == runLog'[Len(runLog')].out
    IN /\ linkCalls' = linkCalls + 1
       /\ lastLink' # None
       /\ lastLink'[1].new = out
       /\ compiler_output_by_param_values'[runLog'[Len(runLog')].fingerprint]
            = out
       /\ Len(lastLink'[1].indices) = Len(iteration_stack)
       /\ \A i \in 1..Len(iteration_stack) :
             lastLink'[1].indices[i] = openLoops[i].index
       /\ IF runLog = <<>>
          THEN lastLink'[1].fn = "from_single_run"
          ELSE /\ lastLink'[1].fn = "merge_compiler_runs"
               /\ lastLink'[1].previous = last_compiler_output

\* C19 as stated: every entry of rt_handler that misses the cache, and so
\* compiles, calls the linker exactly once.
C19_AsStated ==
    [][(RtEntered /\ Len(runLog') = Len(runLog) + 1) => LinkedOnce]_vars

\* C19 amended: every entry of rt_handler that compiles and passes the
\* required-parameter assertion calls the linker exactly once, for the output
\* just compiled and cached, with the indices of the open loops outermost
\* first: from_single_run on the first compile, merge_compiler_runs on every
\* later one with the output the preceding visit used as previous output
\* (every visit stores the output it used, nothing else changes it); no
\* other step calls the linker.
C19_LinkOnCompile ==
    [][/\ RtEnteredCompiled => LinkedOnce
       /\ RtEnteredCompiled
            => last_compiler_output' = Some(runLog'[Len(runLog')].out)
       /\ RtEnteredCached
            => last_compiler_output'
                 = Some(compiler_output_by_param_values[Fingerprint])
       /\ ~RtEnteredCompiled => (linkCalls' = linkCalls /\ lastLink' = None)
       /\ ~RtEntered => last_compiler_output' = last_compiler_output]_vars

\* a compile inside two loops of different indices, linked by
\* merge_compiler_runs after a visit that reused the cached output
C19_Witness ==
    /\ lastLink # None
    /\ lastLink[1].fn = "merge_compiler_runs"
    /\ visits = 3
    /\ Len(runLog) = 2
    /\ lastLink[1].previous = Some(runLog[1].out)
    /\ Len(lastLink[1].indices) = 2
    /\ lastLink[1].indices[1] # lastLink[1].indices[2]

\* C20: the frames of the iteration stack are the for-loop handlers entered
\* and not yet exited, outermost first; a frame starts with an empty
\* parameter map; the exit of a handler leaves the stack as the handler found
\* it at its entry; with no handler open the stack is empty.
C20_StackBalanced ==
    /\ [](/\ Len(iteration_stack) = Len(openLoops)
          /\ \A i \in 1..Len(openLoops) :
                /\ iteration_stack[i].index = openLoops[i].index
                /\ openLoops[i].entry = SubSeq(iteration_stack, 1, i - 1))
    /\ [][/\ Len(openLoops') > Len(openLoops)
             => iteration_stack'[Len(iteration_stack')].parameter_values
                  = EmptyDict
          /\ Len(openLoops') < Len(openLoops)
             => iteration_stack' = openLoops[Len(openLoops)].entry]_vars

\* an inner loop has exited: a parameter set in its frame was compiled for
\* and is no longer on the stack, whose outer frame still holds its own
C20_Witness ==
    /\ Len(openLoops) = 1
    /\ iteration_stack[1].parameter_values # EmptyDict
    /\ \E r \in 1..Len(runLog) :
          \E kv \in runLog[r].fingerprint :
             kv[1] \notin DOMAIN nt_parameter_values

\* the frames, outermost first, that assign the near-time parameter name
FramesOf(name) ==
    {i \in 1..Len(iteration_stack) :
       name \in DOMAIN iteration_stack[i].parameter_values}

\* the pairs (name, value in the innermost frame that assigns name) of the
\* active near-time parameters among names
ActiveFingerprint(names) ==
    {<<name, iteration_stack[CHOOSE i \in FramesOf(name) :
                                \A j \in FramesOf(name) : j <= i]
                 .parameter_values[name]>> :
       name \in {k \in names : FramesOf(k) # {}}}

\* C21: a real-time-section visit looks up, and on a miss that passes the
\* assertion inserts, the fingerprint made of the active near-time parameters
\* named in the required-parameter set, each with the value of the innermost
\* frame that assigns it; no cache key contains a name outside the
\* required-parameter set; the first visit of a run compiles.
C21_FingerprintOfActive ==
    /\ [](\A f \in DOMAIN compiler_output_by_param_values :
            /\ required_parameters # None
            /\ \A pair \in f : pair[1] \in required_parameters[1])
    /\ [][RtEntered =>
            IF Len(runLog') = Len(runLog)
            THEN /\ visits > 0
                 /\ required_parameters # None
                 /\ ActiveFingerprint(required_parameters[1])
                       \in DOMAIN compiler_output_by_param_values
                 /\ last_compiler_output' =
                      Some(compiler_output_by_param_values[
                             ActiveFingerprint(required_parameters[1])])
            ELSE /\ required_parameters # None
                    => ActiveFingerprint(required_parameters[1])
                          \notin DOMAIN compiler_output_by_param_values
                 /\ ~failed'
                    => /\ DOMAIN compiler_output_by_param_values' =
                            DOMAIN compiler_output_by_param_values
                               \cup {ActiveFingerprint(required_parameters'[1])}
                       /\ compiler_output_by_param_values'[
                             ActiveFingerprint(required_parameters'[1])]
                            = runLog'[Len(runLog')].out]_vars

\* a compile has just inserted a fingerprint with the inner frame's value of
\* a parameter that the outer frame assigns a different value
C21_Witness ==
    /\ lastLink # None
    /\ Len(runLog) = 2
    /\ required_parameters = Some({"a"})
    /\ Len(iteration_stack) = 2
    /\ "a" \in DOMAIN iteration_stack[1].parameter_values
    /\ "a" \in DOMAIN iteration_stack[2].parameter_values
    /\ iteration_stack[1].parameter_values["a"]
         # iteration_stack[2].parameter_values["a"]
    /\ <<"a", iteration_stack[2].parameter_values["a"]>>
         \in runLog[2].fingerprint

\* this step is a call of set_sw_param_handler: no loop is entered or left
\* and no real-time section is visited
SwParamSet ==
    /\ visits' = visits
    /\ Len(openLoops') = Len(openLoops)

\* C27: set_sw_param_handler(name, value) maps name to value in the innermost
\* frame and leaves that frame's other entries, the loop indices of all
\* frames, the outer frames, the depth of the stack, the cache and the
\* required-parameter set as they were.
C27_WritesInnermostOnly ==
    [][SwParamSet =>
         LET n == Len(iteration_stack)
             old == iteration_stack[n].parameter_values
             new == iteration_stack'[n].parameter_values
         IN /\ n > 0
            /\ Len(iteration_stack') = n
            /\ \A i \in 1..n :
                  iteration_stack'[i].index = iteration_stack[i].index
            /\ \A i \in 1..(n - 1) : iteration_stack'[i] = iteration_stack[i]
            /\ \E name \in Names :
                  /\ DOMAIN new = DOMAIN old \cup {name}
                  /\ new[name] =
                       SweepValues[name][iteration_stack[n].index + 1]
                  /\ \A k \in DOMAIN old \ {name} : new[k] = old[k]
            /\ compiler_output_by_param_values'
                 = compiler_output_by_param_values
            /\ required_parameters' = required_parameters]_vars

\* after the only visit compiled for a=1, set in the outer frame, the inner
\* frame was given a=2: the cache still holds the key of a=1 only
C27_Witness ==
    /\ visits = 1
    /\ required_parameters = Some({"a"})
    /\ DOMAIN compiler_output_by_param_values = {{<<"a", 1>>}}
    /\ Len(iteration_stack) = 2
    /\ iteration_stack[1].parameter_values = [k \in {"a"} |-> 1]
    /\ iteration_stack[2].parameter_values = [k \in {"a"} |-> 2]

(***************************************************************************)
(* Properties of the generated event lists                                 *)
(***************************************************************************)
Calls == 1..Len(ev_calls)

EventTypes(event_list) ==
    [i \in 1..Len(event_list) |-> event_list[i].event_type]

CountType(event_list, type) ==
    Cardinality({i \in 1..Len(event_list) : event_list[i].event_type = type})

\* e is the END event that closes the START event s
Closes(s, e) ==
    \/ /\ s.event_type = "LOOP_STEP_START"
       /\ e.event_type = "LOOP_STEP_END"
       /\ e.section_name = s.section_name
       /\ e.iteration = s.iteration
    \/ /\ s.event_type = "SECTION_START"
       /\ e.event_type = "SECTION_END"
       /\ e.section_name = s.section_name
    \/ /\ s.event_type = "DELAY_START"
       /\ e.event_type = "DELAY_END"
       /\ e.signal = s.signal
       /\ e.chain_element_id = s.chain_element_id

\* C4: every list returned by generate_event_list has at most max_events
\* entries.
C4_WithinBudget ==
    \A c \in Calls : Len(ev_lists[c]) <= ev_calls[c].max_events

\* C5: in every returned list each LOOP_STEP_START, SECTION_START and
\* DELAY_START is followed later in the list by exactly one END event that
\* closes it.
C5_StartsAreClosed ==
    \A c \in Calls :
       \A i \in 1..Len(ev_lists[c]) :
          ev_lists[c][i].event_type
                \in {"LOOP_STEP_START", "SECTION_START", "DELAY_START"}
          => Cardinality({j \in (i+1)..Len(ev_lists[c]) :
                            Closes(ev_lists[c][i], ev_lists[c][j])}) = 1

\* a loop iteration whose branch owns two signals and got one delay pair
C5_Witness ==
    \E c \in Calls :
       /\ ev_calls[c].self.kind = "LoopIterationSchedule"
       /\ Len(ev_calls[c].self.children) = 1
       /\ Len(ev_calls[c].self.children[1].signals) = 2
       /\ CountType(ev_lists[c], "DELAY_START") = 1
       /\ CountType(ev_lists[c], "DELAY_END") = 1

\* C6: over the event lists of all iterations of a loop, exactly one
\* LOOP_ITERATION_END is emitted, and it is in the list of iteration 0.
C6_OneIterationEnd ==
    (ev_sched.kind = "LoopIterationSchedule" /\ Len(ev_lists) = NumIterations)
    => /\ CountType(ev_lists[1], "LOOP_ITERATION_END") = 1
       /\ \A c \in 2..Len(ev_lists) :
             CountType(ev_lists[c], "LOOP_ITERATION_END") = 0

C6_Witness ==
    /\ ev_sched.kind = "LoopIterationSchedule"
    /\ Len(ev_lists) = NumIterations
    /\ NumIterations > 1
    /\ \A c \in Calls : ev_calls[c].self.iteration = c - 1

\* the calls made on an EmptyBranch that owns two signals
TwoSignalBranchCalls ==
    {c \in Calls : /\ ev_calls[c].self.kind = "EmptyBranch"
                   /\ Len(ev_calls[c].self.signals) = 2}

\* C7 as stated: with two signals, max_events=4 returns SECTION_START,
\* SECTION_END and max_events=6 returns a delay pair for one signal only.
C7_AsStated ==
    \A c \in TwoSignalBranchCalls :
       /\ ev_calls[c].max_events = 4
            => EventTypes(ev_lists[c]) = <<"SECTION_START", "SECTION_END">>
       /\ ev_calls[c].max_events = 6
            => EventTypes(ev_lists[c]) =
                 <<"SECTION_START", "DELAY_START", "DELAY_END", "SECTION_END">>

\* C7 amended: with two signals, max_events=4 returns SECTION_START, the
\* delay pair of the first signal, SECTION_END; max_events=6 returns
\* SECTION_START, the delay pairs of both signals, SECTION_END.
C7_BudgetScenario ==
    \A c \in TwoSignalBranchCalls :
       LET signals == ev_calls[c].self.signals
           list == ev_lists[c]
       IN /\ ev_calls[c].max_events = 4
               => /\ EventTypes(list) =
                       <<"SECTION_START", "DELAY_START", "DELAY_END",
                         "SECTION_END">>
                  /\ list[2].signal = signals[1]
                  /\ list[3].signal = signals[1]
          /\ ev_calls[c].max_events = 6
               => /\ EventTypes(list) =
                       <<"SECTION_START", "DELAY_START", "DELAY_END",
                         "DELAY_START", "DELAY_END", "SECTION_END">>
                  /\ <<list[2].signal, list[3].signal,
                       list[4].signal, list[5].signal>>
                       = <<signals[1], signals[1], signals[2], signals[2]>>

C7_Witness ==
    /\ Len(ev_calls) = 2
    /\ TwoSignalBranchCalls = {1, 2}
    /\ ev_calls[1].max_events = 4
    /\ ev_calls[2].max_events = 6

\* the calls made on a loop iteration
LoopCalls == {c \in Calls : ev_calls[c].self.kind = "LoopIterationSchedule"}

C15_ShadowTags ==
    \A c \in LoopCalls :
       \A i \in 1..Len(ev_lists[c]) :
          IF ev_calls[c].self.shadow
          THEN /\ "shadow" \in DOMAIN ev_lists[c][i]
               /\ ev_lists[c][i].shadow = TRUE
          ELSE "shadow" \notin DOMAIN ev_lists[c][i]

\* a shadow iteration whose list holds a delay pair of a child
C15_Witness ==
    \E c \in LoopCalls :
       /\ ev_calls[c].self.shadow
       /\ CountType(ev_lists[c], "DELAY_START") > 0
       /\ CountType(ev_lists[c], "PARAMETER_SET") > 0

\* the calls made on a CaseSchedule
CaseCalls == {c \in Calls : ev_calls[c].self.kind = "CaseSchedule"}

\* C16: the list a CaseSchedule returns is the list of the generic section
\* for the same arguments, except that its first event, the SECTION_START,
\* also carries the state of the schedule; no other event has a state field.
C16_StateOnSectionStart ==
    \A c \in CaseCalls :
       LET call == ev_calls[c]
           generic == SectionSchedule_generate_event_list(
                          call.self, call.start, call.max_events,
                          call.id_tracker).events
           list == ev_lists[c]
       IN /\ Len(list) = Len(generic)
          /\ list[1].event_type = "SECTION_START"
          /\ DOMAIN list[1] = DOMAIN generic[1] \cup {"state"}
          /\ list[1].state = call.self.state
          /\ \A k \in DOMAIN generic[1] : list[1][k] = generic[1][k]
          /\ \A i \in 2..Len(list) :
                /\ list[i] = generic[i]
                /\ "state" \notin DOMAIN list[i]

\* a CaseSchedule of a state other than 0 has returned its list
C16_Witness ==
    \E c \in CaseCalls :
       /\ ev_calls[c].self.state > 0
       /\ Len(ev_lists[c]) > 1

\* the positions <<call, index>> of the events that carry an id
IdEvents ==
    {p \in UNION {{<<c, i>> : i \in 1..Len(ev_lists[c])} : c \in Calls} :
       "id" \in DOMAIN ev_lists[p[1]][p[2]]}

\* C17: over the lists of all calls that share the id iterator no id is
\* carried by two events; in a delay pair the DELAY_START id is smaller than
\* the DELAY_END id and both carry chain_element_id = the DELAY_START id.
C17_UniqueIds ==
    /\ \A p, q \in IdEvents :
          p # q => ev_lists[p[1]][p[2]].id # ev_lists[q[1]][q[2]].id
    /\ \A c \in Calls :
          \A i, j \in 1..Len(ev_lists[c]) :
             LET s == ev_lists[c][i]
                 e == ev_lists[c][j]
             IN (/\ s.event_type = "DELAY_START"
                 /\ e.event_type = "DELAY_END"
                 /\ e.signal = s.signal
                 /\ e.section_name = s.section_name)
                => /\ s.id < e.id
                   /\ s.chain_element_id = s.id
                   /\ e.chain_element_id = s.id

\* two calls on the same iterator, each with the delay pairs of two signals
C17_Witness ==
    /\ Len(ev_calls) = 2
    /\ \A c \in Calls : CountType(ev_lists[c], "DELAY_START") = 2

\* the number of bracketing events a node emits itself
OwnBrackets(self) ==
    IF self.kind = "LoopIterationSchedule"
    THEN 2 + Len(self.sweep_parameters) + (IF self.iteration = 0 THEN 1 ELSE 0)
    ELSE 2

\* C18: no call with max_events smaller than the number of the node's own
\* bracketing events returns an event list.
C18_SmallBudgetRaises ==
    \A c \in Calls : ev_calls[c].max_events >= OwnBrackets(ev_calls[c].self)

(***************************************************************************)
(* Properties of the signatures                                            *)
(***************************************************************************)
SigCalls(fn) == {c \in 1..Len(sig_calls) : sig_calls[c].fn = fn}

\* C11 as stated: after reduce_signature_phase a pulse that had phase p,
\* baseband_phase b and oscillator_phase o has phase (p + b + o) mod 2*pi
\* and neither baseband_phase nor oscillator_phase.
C11_AsStated ==
    \A c \in SigCalls("reduce_signature_phase") :
       \A i \in 1..Len(sig_calls[c].before.waveform.pulses) :
          LET old == sig_calls[c].before.waveform.pulses[i]
              new == sig_calls[c].after.waveform.pulses[i]
          IN (old.phase # None /\ old.baseband_phase # None
                /\ old.oscillator_phase # None)
             => /\ new.phase =
                     Some(normalize_phase(
                            float_add(float_add(old.phase[1],
                                                old.baseband_phase[1]),
                                      old.oscillator_phase[1])))
                /\ new.baseband_phase = None
                /\ new.oscillator_phase = None

\* C11 amended: after reduce_signature_phase no pulse has a baseband_phase or
\* an oscillator_phase; the phase of a pulse is p + b' + o (an absent value
\* counting as 0), not reduced modulo 2*pi, where b' is b without use_ct_phase
\* and (b - baseband_phase of the last pulse) mod 2*pi with it; a pulse with
\* nothing to absorb keeps its phase.
C11_PhaseAbsorbed ==
    \A c \in SigCalls("reduce_signature_phase") :
       LET olds == sig_calls[c].before.waveform.pulses
           news == sig_calls[c].after.waveform.pulses
           last == or_zero(olds[Len(olds)].baseband_phase)
       IN /\ Len(news) = Len(olds)
          /\ \A i \in 1..Len(olds) :
                LET relative ==
                        IF sig_calls[c].use_ct_phase
                        THEN Some(float_mod(
                                    float_sub(or_zero(olds[i].baseband_phase),
                                              last), TwoPi))
                        ELSE olds[i].baseband_phase
                IN /\ news[i].baseband_phase = None
                   /\ news[i].oscillator_phase = None
                   /\ news[i].phase =
                        IF relative = None /\ olds[i].oscillator_phase = None
                        THEN olds[i].phase
                        ELSE Some(float_add(
                                    float_add(or_zero(olds[i].phase),
                                              or_zero(relative)),
                                    or_zero(olds[i].oscillator_phase)))

\* with use_ct_phase, a first pulse with all three phases whose baseband
\* phase differs from the last pulse's, and a last pulse whose sum passes 2*pi
C11_Witness ==
    \E c \in SigCalls("reduce_signature_phase") :
       LET olds == sig_calls[c].before.waveform.pulses
           news == sig_calls[c].after.waveform.pulses
       IN /\ sig_calls[c].use_ct_phase
          /\ Len(olds) = 2
          /\ olds[1].phase # None
          /\ olds[1].oscillator_phase # None
          /\ olds[1].baseband_phase # None
          /\ olds[1].baseband_phase # olds[2].baseband_phase
          /\ news[2].phase[1] >= TwoPi

\* the phases a signature holds
PhasesOf(sig) ==
    {sig.waveform.pulses[i].phase : i \in 1..Len(sig.waveform.pulses)}
       \cup {sig.set_phase, sig.increment_phase}

\* C12: a second quantize_phase with the same resolution leaves every pulse
\* phase, set_phase and increment_phase as the first left them, and every
\* phase is in [0, 2*pi) after a quantize_phase.
C12_QuantizeIdempotent ==
    /\ \A c \in SigCalls("quantize_phase") :
          \A phase \in PhasesOf(sig_calls[c].after) \ {None} :
             0 <= phase[1] /\ phase[1] < TwoPi
    /\ \A c \in SigCalls("quantize_phase") :
          (c + 1) \in SigCalls("quantize_phase")
             => sig_calls[c + 1].after = sig_calls[c].after

\* the elements of a frozenset
Elements(obj) == {obj[i] : i \in 1..Len(obj)}

\* a == b for two WaveformSignatures
SameContent(a, b) ==
    /\ a.length = b.length
    /\ Len(a.pulses) = Len(b.pulses)
    /\ \A i \in 1..Len(a.pulses) :
          /\ [a.pulses[i] EXCEPT !.pulse_parameters = <<>>]
               = [b.pulses[i] EXCEPT !.pulse_parameters = <<>>]
          /\ Elements(a.pulses[i].pulse_parameters)
               = Elements(b.pulses[i].pulse_parameters)

\* C13: two WaveformSignatures of equal length and equal pulses, whatever
\* the order their pulse_parameters sets iterate in, have the same
\* stable_hash digest and the same signature_string suffix; a repeated call
\* returns the digest and the suffix of the call before.
C13_HashOfContent ==
    /\ [](SameContent(wf_pair[1], wf_pair[2])
            => /\ (wf_digests[1] # None /\ wf_digests[2] # None)
                    => wf_digests[1] = wf_digests[2]
               /\ (wf_suffixes[1] # None /\ wf_suffixes[2] # None)
                    => wf_suffixes[1] = wf_suffixes[2])
    /\ [][\A i \in 1..2 :
            /\ wf_digests[i] # None => wf_digests'[i] = wf_digests[i]
            /\ wf_suffixes[i] # None => wf_suffixes'[i] = wf_suffixes[i]]_vars

\* both digests and suffixes are computed for two equal signatures whose
\* parameter sets iterate in different orders
C13_Witness ==
    /\ SameContent(wf_pair[1], wf_pair[2])
    /\ wf_pair[1] # wf_pair[2]
    /\ \A i \in 1..2 : wf_digests[i] # None /\ wf_suffixes[i] # None

\* C22: reduce_signature_phase with use_ct_phase on a signature without
\* set_phase and increment_phase: with a known previous phase the result has
\* no set_phase, and its increment_phase is (baseband phase of the last pulse
\* - previous phase) mod 2*pi, absent when that is 0; with an unknown previous
\* phase the result has the last pulse's baseband phase as set_phase and no
\* increment_phase (an absent baseband phase counts as 0.0).  The result never
\* has both.
C22_RegisterPhase ==
    \A c \in SigCalls("reduce_signature_phase") :
       LET before == sig_calls[c].before
           after == sig_calls[c].after
           prev == sig_calls[c].prev_hw_oscillator_phase
           pulses == before.waveform.pulses
           trailing == pulses[Len(pulses)].baseband_phase
           this == IF trailing = None THEN 0 ELSE trailing[1]
           delta == float_mod(float_sub(this, IF prev = None THEN 0 ELSE prev[1]),
                              TwoPi)
       IN (/\ sig_calls[c].use_ct_phase
           /\ before.set_phase = None
           /\ before.increment_phase = None)
          => /\ prev # None
                => /\ after.set_phase = None
                   /\ after.increment_phase =
                        IF delta = 0 THEN None ELSE Some(delta)
             /\ prev = None
                => /\ after.set_phase = Some(this)
                   /\ after.increment_phase = None
             /\ after.set_phase = None \/ after.increment_phase = None

\* a known previous phase of 10.0 and a last pulse with baseband phase -1.5:
\* the increment is the difference wrapped into [0, 2*pi)
C22_Witness ==
    \E c \in SigCalls("reduce_signature_phase") :
       LET before == sig_calls[c].before
           pulses == before.waveform.pulses
       IN /\ sig_calls[c].use_ct_phase
          /\ before.set_phase = None
          /\ before.increment_phase = None
          /\ sig_calls[c].prev_hw_oscillator_phase = Some(float_of_int(10))
          /\ pulses[Len(pulses)].baseband_phase = Some(float(-3 * Unit, 2))
          /\ sig_calls[c].after.increment_phase # None
          /\ sig_calls[c].after.increment_phase[1] > 0
          /\ sig_calls[c].after.increment_phase[1] < TwoPi

\* C23: with use_ct_phase, two signatures that differ only by one common
\* offset of the baseband phases of all their pulses reduce to equal waveform
\* signatures, whatever previous oscillator phase each call is given.
C23_ShiftInvariant ==
    (/\ sig_calls # <<>>
     /\ sig_calls[1].use_ct_phase
     /\ shifted_reduced # None)
    => sig_calls[1].after.waveform = shifted_reduced[1].waveform

\* two pulses of different baseband phases, one of them absent, reduced with
\* a known previous phase on one side and an unknown one on the other
C23_Witness ==
    /\ sig_calls # <<>>
    /\ sig_calls[1].use_ct_phase
    /\ shifted_reduced # None
    /\ sig_calls[1].prev_hw_oscillator_phase # None
    /\ shifted_reduced[1].set_phase # None
    /\ Len(signature[1].waveform.pulses) = 2
    /\ sig_calls[1].before.waveform.pulses[1].baseband_phase = None
    /\ sig_calls[1].before.waveform.pulses[2].baseband_phase
         = Some(float_of_int(10))
    /\ sig_calls[1].before.waveform # shifted[1].waveform
    /\ sig_calls[1].after.waveform.pulses[1].phase # None

\* C24: a call of reduce_signature_phase leaves every object that existed
\* before it, the argument and its pulses among them, with the field values
\* it had; the signature returned, its waveform and its pulses are objects
\* that did not exist before the call.
C24_ArgumentUntouched ==
    [][heap_result' # heap_result
         => /\ \A a \in DOMAIN heap : heap'[a] = heap[a]
            /\ Reachable(heap', heap_result'[1]) \cap DOMAIN heap = {}]_vars

\* the call has returned a signature whose last pulse has a phase that the
\* argument's last pulse does not have
C24_Witness ==
    /\ heap_result # None
    /\ LET arg == Load(heap, heap_arg)
           result == Load(heap, heap_result[1])
           n == Len(arg.waveform.pulses)
       IN /\ n = 2
          /\ arg.waveform.pulses[n].baseband_phase # None
          /\ result.waveform.pulses[n].phase # arg.waveform.pulses[n].phase
          /\ result.set_phase # arg.set_phase
          /\ Load(heap, Len(arg.waveform.pulses) + 3).waveform = arg.waveform

\* the calls made on an EmptyBranch
EmptyBranchCalls == {c \in Calls : ev_calls[c].self.kind = "EmptyBranch"}

\* the list is SECTION_START, a DELAY_START at start and a DELAY_END at
\* start + length for each of the signals in turn, SECTION_END
FullDelayList(list, signals, start, length) ==
    /\ Len(list) = 2 + 2 * Len(signals)
    /\ list[1].event_type = "SECTION_START"
    /\ list[Len(list)].event_type = "SECTION_END"
    /\ \A k \in 1..Len(signals) :
          /\ list[2 * k].event_type = "DELAY_START"
          /\ list[2 * k].time = start
          /\ list[2 * k].signal = signals[k]
          /\ list[2 * k + 1].event_type = "DELAY_END"
          /\ list[2 * k + 1].time = start + length
          /\ list[2 * k + 1].signal = signals[k]
          /\ list[2 * k + 1].chain_element_id = list[2 * k].chain_element_id

\* C25: an EmptyBranch called with max_events >= 2 + 2 * (number of its
\* signals) returns SECTION_START, one DELAY_START / DELAY_END pair per
\* signal, SECTION_END; called with max_events < 4, too few for the two
\* SECTION events and one delay pair, it returns SECTION_START, SECTION_END.
C25_DelayPairs ==
    \A c \in EmptyBranchCalls :
       LET self == ev_calls[c].self
       IN /\ ev_calls[c].max_events >= 2 + 2 * Len(self.signals)
               => FullDelayList(ev_lists[c], self.signals, ev_calls[c].start,
                                self.length)
          /\ ev_calls[c].max_events < 4
               => EventTypes(ev_lists[c]) = <<"SECTION_START", "SECTION_END">>

\* the event without its shadow tag, its iteration number and its value
Untagged(event) ==
    [k \in DOMAIN event \ {"shadow", "iteration", "value"} |-> event[k]]

NotIterationEnd(event) == event.event_type # "LOOP_ITERATION_END"

\* the events of the list other than LOOP_ITERATION_END, untagged
Comparable(event_list) ==
    LET kept == SelectSeq(event_list, NotIterationEnd)
    IN [i \in 1..Len(kept) |-> Untagged(kept[i])]

\* C26: the shadow copy compressed_iteration(k), k >= 1, of an iteration-0
\* schedule, called with the start, the max_events and the id iterator value
\* of a call made on the iteration-0 schedule, returns the events of that
\* call up to the shadow tag, the iteration number, the PARAMETER_SET values
\* and the LOOP_ITERATION_END.
C26_ShadowSameEvents ==
    \A c \in LoopCalls :
       ev_calls[c].self.iteration = 0
       => \A k \in 1..(NumIterations - 1) :
             Comparable(LoopIterationSchedule_generate_event_list(
                            compressed_iteration(ev_calls[c].self, k),
                            ev_calls[c].start, ev_calls[c].max_events,
                            ev_calls[c].id_tracker).events)
               = Comparable(ev_lists[c])

(***************************************************************************)
(* Properties of the controller                                            *)
(***************************************************************************)
\* the oscillators of the list that have the id and the group of the request
SameIdOscs(oscs, osc_param) ==
    {i \in 1..Len(oscs) : /\ oscs[i].id = osc_param.id
                          /\ oscs[i].group = osc_param.channel}

\* C28: allocate_osc for an id already allocated in the same oscillator
\* group raises LabOneQControllerException and leaves the allocated
\* oscillators as they were when the frequency differs, and only adds the
\* channel to that oscillator's channels, without a new oscillator, when the
\* frequency is the same; after free_allocations no oscillator is allocated.
C28_AllocateOsc ==
    osc_last # None
    => LET before == osc_last[1].before
       IN IF osc_last[1].fn = "free_allocations"
          THEN allocated_oscs = <<>>
          ELSE LET osc_param == osc_last[1].osc_param[1]
                   same == SameIdOscs(before, osc_param)
               IN same # {}
                  => IF \E i \in same :
                          before[i].frequency # osc_param.frequency
                     THEN /\ osc_last[1].exception
                               = Some("LabOneQControllerException")
                          /\ allocated_oscs = before
                     ELSE /\ osc_last[1].exception = None
                          /\ Len(allocated_oscs) = Len(before)
                          /\ \A i \in 1..Len(before) :
                                /\ allocated_oscs[i].channels =
                                     IF i \in same
                                     THEN before[i].channels
                                             \cup {osc_param.channel}
                                     ELSE before[i].channels
                                /\ [allocated_oscs[i] EXCEPT !.channels = {}]
                                     = [before[i] EXCEPT !.channels = {}]

\* with an oscillator allocated on each channel, a request for the id of one
\* of them with another frequency has raised
C28_Witness ==
    /\ osc_last # None
    /\ osc_last[1].fn = "allocate_osc"
    /\ Len(osc_last[1].before) = 2
    /\ \E i \in SameIdOscs(osc_last[1].before, osc_last[1].osc_param[1]) :
          osc_last[1].before[i].frequency
             # osc_last[1].osc_param[1].frequency
    /\ osc_last[1].exception # None

\* the conditions registered at the call that no update appended to a node
\* has met
Unmet ==
    {mp \in Monitors \X Paths :
       /\ mp[1] \in DOMAIN registered
       /\ mp[2] \in DOMAIN registered[mp[1]]
       /\ \A val \in polled[mp[1]][mp[2]] :
             ~(registered[mp[1]][mp[2]] = None
                 \/ Some(val) = registered[mp[1]][mp[2]])}

\* C29: wait_all returns True only when every condition registered at the
\* call has been met by an update received for its node, and in the first
\* round after which that is so; it returns False only with a condition unmet
\* and more than timeout elapsed since the call, and does not go on waiting
\* once a timeout test has found more than timeout elapsed; it has polled
\* every monitor with conditions when it returns.
C29_WaitAll ==
    /\ wait_result = Some(TRUE) => Unmet = {}
    /\ wait_result = Some(FALSE)
          => (Unmet # {} /\ checked_at - wait_start > wait_timeout)
    /\ (wait_pc = "waiting" /\ polled_monitors # {})
          => (Unmet # {} /\ checked_at - wait_start <= wait_timeout)
    /\ wait_result # None => polled_monitors = DOMAIN registered

\* C30: a call of connect runs DeviceCollection.connect exactly when no run
\* of it since the latest disconnect lies within the CONNECT_CHECK_HOLDOFF
\* seconds before the call: it runs when there was none or the latest one is
\* more than the holdoff ago, and is skipped only otherwise.
C30_Revalidates ==
    (connect_last # None /\ connect_last[1].call = "connect")
       => (connect_last[1].checked
             <=> (\/ connect_last[1].previous = None
                  \/ connect_last[1].at - connect_last[1].previous[1]
                       > CONNECT_CHECK_HOLDOFF))

\* a call of batch_set that sets the execution node of a leader
LeaderStartedAt(i) ==
    /\ step_log[i].call = "batch_set"
    /\ \E device \in Leaders : <<device, "execution">> \in step_log[i].nodes

\* the call of wait_all for the stop conditions
StopWaitAt(i) ==
    /\ step_log[i].call = "wait_all"
    /\ step_log[i].conditions = NodesOf(Followers, "done")
    /\ step_log[i].timeout = None

\* C31: before any call that sets a leader's execution node there are, in
\* this order, the call that sets the execution nodes of all followers, the
\* wait for the followers' ready conditions with a timeout of 2 s and the call
\* that sets the followers' start-execution nodes; the wait for the stop
\* conditions comes only after the call that sets the leaders' execution
\* nodes.
C31_FollowersBeforeLeaders ==
    /\ \A i \in 1..Len(step_log) :
          LeaderStartedAt(i)
            => \E j, k, l \in 1..(i - 1) :
                  /\ j < k
                  /\ k < l
                  /\ step_log[j]
                       = [call |-> "batch_set",
                          nodes |-> NodesOf(Followers, "execution")]
                  /\ step_log[k].call = "wait_all"
                  /\ step_log[k].conditions = NodesOf(Followers, "ready")
                  /\ step_log[k].timeout = Some(2)
                  /\ step_log[l]
                       = [call |-> "batch_set",
                          nodes |-> NodesOf(Followers, "start_execution")]
    /\ \A w \in 1..Len(step_log) :
          StopWaitAt(w)
            => /\ ~(\E i \in (w + 1)..Len(step_log) : LeaderStartedAt(i))
               /\ \E i \in 1..(w - 1) :
                     step_log[i] = [call |-> "batch_set",
                                    nodes |-> NodesOf(Leaders, "execution")]

\* a step with a leader and two followers, the followers not ready in time,
\* has come to its end
C31_Witness ==
    /\ Leaders # {}
    /\ Cardinality(Followers) = 2
    /\ Len(step_log) = 5
    /\ StopWaitAt(5)
    /\ LeaderStartedAt(4)
    /\ step_log[2].result = FALSE

\* a batch with a waveform or command table node of the UHFQA
UhfqaWaveformsAt(i) ==
    \E node \in upload_log[i].nodes :
       node[1] = "uhfqa" /\ node[3] \in {"waves", "command_table"}

\* the ready nodes of the UHFQA sequencers that get a program
RegisteredReady ==
    {<<di[1], di[2].awg_index, "ready">> :
       di \in {x \in AllItems(awg_data) : x[1] = "uhfqa" /\ x[2].elf}}

\* C32: a batch with waveform or command table nodes of the UHFQA is sent
\* only after the batches with every ELF node and after every ready node of
\* a UHFQA sequencer that gets a program has reported 1; the upload goes on
\* past the wait only with all of them reported; it raises only with one of
\* them unreported and more than 10 s elapsed, does not go on waiting once
\* that was found, and has sent no UHFQA waveform batch when it raises.
C32_WaveformsAfterReady ==
    /\ \A i \in 1..Len(upload_log) :
          UhfqaWaveformsAt(i)
            => /\ \A di \in AllItems(awg_data) :
                     di[2].elf
                       => \E j \in 1..(i - 1) :
                             <<di[1], di[2].awg_index, "elf">>
                               \in upload_log[j].nodes
               /\ RegisteredReady \subseteq upload_reported
    /\ upload_pc \in {"waveforms", "done"}
          => RegisteredReady \subseteq upload_reported
    /\ upload_pc = "raised"
          => /\ ~(RegisteredReady \subseteq upload_reported)
             /\ upload_checked_at - upload_start > 10
             /\ \A i \in 1..Len(upload_log) : ~UhfqaWaveformsAt(i)
    /\ upload_pc = "wait" => upload_checked_at - upload_start <= 10

\* the waveforms of a UHFQA with two programs were sent after both of its
\* sequencers reported ready, one of them in a later round than the other
C32_Witness ==
    /\ upload_pc = "done"
    /\ Cardinality(RegisteredReady) = 2
    /\ UhfqaWaveformsAt(Len(upload_log))
    /\ upload_checked_at > 0

\* the condition at a position of a monitor holds: its path is monitored,
\* has a last received value, and the value is one of the expected ones
ConditionHolds(m, i) ==
    LET path == chk_conditions[m][i][1]
        expected == chk_conditions[m][i][2]
    IN /\ path \in DOMAIN chk_nodes[m]
       /\ chk_nodes[m][path].last # None
       /\ \/ expected = [kind |-> "single", value |-> None]
          \/ /\ expected.kind = "single"
             /\ expected.value = chk_nodes[m][path].last
          \/ /\ expected.kind = "list"
             /\ \E k \in 1..Len(expected.value) :
                   \/ expected.value[k] = None
                   \/ expected.value[k] = chk_nodes[m][path].last

\* the conditions in the order of the checks, as pairs of monitor and position
ConditionPositions ==
    {mi \in {"monitorA", "monitorB"} \X (1..2) :
       mi[2] <= Len(chk_conditions[mi[1]])}

\* a condition comes before another in the order of the checks
ComesBefore(a, b) ==
    \/ a[1] = "monitorA" /\ b[1] = "monitorB"
    \/ a[1] = b[1] /\ a[2] < b[2]

\* C33: check_all polls nothing and changes no node; what it returns is
\* (None, None) exactly when every condition holds, and otherwise the path
\* and the expected value of the first condition that does not hold.
C33_CheckAll ==
    [][chk_result' # chk_result
         => /\ chk_nodes' = chk_nodes
            /\ chk_daq' = chk_daq
            /\ chk_conditions' = chk_conditions
            /\ IF \A mi \in ConditionPositions : ConditionHolds(mi[1], mi[2])
               THEN chk_result' = Some(<<None, None>>)
               ELSE \E mi \in ConditionPositions :
                       /\ ~ConditionHolds(mi[1], mi[2])
                       /\ \A other \in ConditionPositions :
                             ComesBefore(other, mi)
                               => ConditionHolds(other[1], other[2])
                       /\ chk_result'
                            = Some(<<Some(chk_conditions[mi[1]][mi[2]][1]),
                                     Some(chk_conditions[mi[1]][mi[2]][2])>>)]_vars

\* a check found the second condition of the first monitor failing while
\* an update of its node was waiting to be polled
C33_Witness ==
    /\ chk_result # None
    /\ chk_result[1][1] # None
    /\ Len(chk_conditions["monitorA"]) = 2
    /\ chk_result[1][1] = Some(chk_conditions["monitorA"][2][1])
    /\ chk_daq["monitorA"][chk_conditions["monitorA"][2][1]] # <<>>

(***************************************************************************)
(* Properties of the precompensation helpers                               *)
(***************************************************************************)
\* two signals share an AWG: same device and same AWG index
SameAwg(a, b) ==
    /\ signal_infos[a].device_id = signal_infos[b].device_id
    /\ (IF signal_infos[a].device_type = "UHFQA" THEN 0
        ELSE signal_infos[a].channel \div signal_infos[a].channels_per_awg)
         = (IF signal_infos[b].device_type = "UHFQA" THEN 0
            ELSE signal_infos[b].channel \div signal_infos[b].channels_per_awg)

\* the high pass filter of a signal was enabled in what was passed
HighPassGiven(id) ==
    /\ precompensations_given[id] # None
    /\ "high_pass" \in DOMAIN precompensations_given[id][1]

\* signals of one AWG disagree on the high pass filter
HighPassDisagreement ==
    \E a, b \in DOMAIN signal_infos :
       SameAwg(a, b) /\ HighPassGiven(a) # HighPassGiven(b)

\* C34: adapt_precompensations raises a RuntimeError exactly when signals of
\* one AWG disagree on the high pass filter, and after a normal return all
\* signals of one AWG have the same precompensation_delay_samples.
C34_SameDelayPerAwg ==
    /\ adapt_result = "RuntimeError" <=> (adapt_result # "none"
                                            /\ HighPassDisagreement)
    /\ adapt_result = "returned"
          => \A a, b \in DOMAIN signal_infos :
                SameAwg(a, b)
                  => precompensation_delay_samples(precompensations[a])
                       = precompensation_delay_samples(precompensations[b])

\* three signals of one AWG, one without precompensation, one with two
\* exponentials and one with a bounce and a FIR filter, were adapted
C34_Witness ==
    /\ adapt_result = "returned"
    /\ \A a, b \in DOMAIN signal_infos : SameAwg(a, b)
    /\ precompensations_given["s1"] = None
    /\ precompensations_given["s2"]
         = Some([key \in {"exponential"} |-> <<"set", "set">>])
    /\ precompensations_given["s3"] = Some([key \in {"bounce", "FIR"} |-> "set"])
    /\ precompensation_delay_samples(precompensations["s1"]) = 72 + 176 + 32 + 136

(***************************************************************************)
(* Properties of Match.add                                                 *)
(***************************************************************************)
\* the Case children at two different positions have different states
DistinctCaseStates ==
    \A i, j \in 1..Len(match_children) :
       (/\ i # j
        /\ match_children[i].kind = "Case"
        /\ match_children[j].kind = "Case")
         => match_children[i].state # match_children[j].state

\* the object of the last add was not a Case, or a Case of its state was
\* among the children
LastAddRejectable ==
    \/ match_arg[1].kind # "Case"
    \/ \E i \in 1..Len(match_before) :
          /\ match_before[i].kind = "Case"
          /\ match_before[i].state = match_arg[1].state

\* C35: after any sequence of Match.add calls the Case children have
\* pairwise distinct states, and an add of an object that is not a Case or
\* of a Case whose state is already present raises LabOneQException and
\* leaves the children list unchanged.
C35_DistinctStates ==
    /\ DistinctCaseStates
    /\ (match_arg # None /\ LastAddRejectable)
          => (match_raised /\ match_children = match_before)

\* two branches were added and the add of a second Case of state 1 was
\* rejected
C35_Witness ==
    /\ Len(match_children) = 2
    /\ match_children[1].state = 1
    /\ match_arg = Some([kind |-> "Case", state |-> 1])
    /\ match_raised
    /\ match_children = match_before

(***************************************************************************)
(* Properties of ResponseWaiter                                            *)
(***************************************************************************)
\* the condition of a monitor on a path was fulfilled by an update polled
\* during the wait
Fulfilled(m, path) ==
    /\ path \in DOMAIN nodes[m]
    /\ \E val \in polled[m][path] : is_expected(val, registered[m][path])

\* C36: wait_all returns True only if for every condition that was added a
\* value matching its expectation was received on its path during the wait;
\* a condition on a path without a node in its monitor is never fulfilled.
C36_TrueOnlyFulfilled ==
    wait_result = Some(TRUE)
       => \A m \in DOMAIN registered :
             \A path \in DOMAIN registered[m] : Fulfilled(m, path)

\* C37: after wait_all has returned False, remaining() holds exactly the
\* paths of the conditions that no update received during the wait, the last
\* poll before the timeout included, has fulfilled.
C37_RemainingUnfulfilled ==
    wait_result = Some(FALSE)
       => DOMAIN ResponseWaiter_remaining(conditions)
            = {path \in Paths :
                 \E m \in DOMAIN registered :
                    path \in DOMAIN registered[m] /\ ~Fulfilled(m, path)}

(***************************************************************************)
(* The state of the near-time executor between handler calls               *)
(***************************************************************************)
\* C38: in every state reached by handler calls that returned normally, a
\* known required-parameter set comes with a non-empty cache, an existing
\* combined compiler output and a last compiler output that is a value of
\* the cache.
C38_KnownRequiredHasOutputs ==
    (~failed /\ required_parameters # None)
       => /\ DOMAIN compiler_output_by_param_values # {}
          /\ combined_compiler_output # None
          /\ last_compiler_output # None
          /\ \E f \in DOMAIN compiler_output_by_param_values :
                compiler_output_by_param_values[f] = last_compiler_output[1]

\* after two compiles a cache hit has made the older output the last one
C38_Witness ==
    /\ ~failed
    /\ required_parameters # None
    /\ visits = 3
    /\ Len(runLog) = 2
    /\ last_compiler_output = Some(runLog[1].out)
    /\ combined_compiler_output # None

(***************************************************************************)
(* Properties of Controller._execute_compiled_impl                         *)
(***************************************************************************)
\* the calls of the try block, and those made after the finally clause
TryCalls ==
    {"start_monitor", "initialize_devices", "near_time_run", "check_errors"}
EndCalls == {"on_experiment_end", "shut_down", "disconnect"}

\* C39: at every exit of _execute_compiled_impl a call of start_monitor has
\* been followed by a call of stop_monitor; after an exception raised in the
\* try block none of on_experiment_end, shut_down and disconnect is called;
\* and each of these is called only after stop_monitor has returned.
C39_MonitorStopped ==
    /\ exec_pc \in {"returned", "raised"}
          => \A i \in 1..Len(exec_log) :
                exec_log[i].call = "start_monitor"
                  => \E j \in (i + 1)..Len(exec_log) :
                        exec_log[j].call = "stop_monitor"
    /\ (\E i \in 1..Len(exec_log) :
           exec_log[i].call \in TryCalls /\ exec_log[i].raised)
          => \A j \in 1..Len(exec_log) : exec_log[j].call \notin EndCalls
    /\ \A j \in 1..Len(exec_log) :
          exec_log[j].call \in EndCalls
            => \E i \in 1..(j - 1) :
                  /\ exec_log[i].call = "stop_monitor"
                  /\ ~exec_log[i].raised

\* check_errors of the second device has raised, the monitor was stopped
\* and the exception has left the function
C39_Witness ==
    /\ exec_pc = "raised"
    /\ Len(exec_log) = 8
    /\ exec_log[7] = [call |-> "check_errors", raised |-> TRUE]
    /\ exec_log[8] = [call |-> "stop_monitor", raised |-> FALSE]

(***************************************************************************)
(* Properties of Controller._awg_compile                                   *)
(***************************************************************************)
\* _awg_compile has returned or raised
CompileLeft == compile_pc \in {"returned", "LabOneQControllerException"}

\* C40: _awg_compile returns or raises only after every submitted worker has
\* finished; on a normal return every item has the elf compiled from itself;
\* a worker writes the elf of the item it was submitted with only; and when
\* a worker has raised, _awg_compile raises LabOneQControllerException.
C40_AllWorkersFinished ==
    /\ CompileLeft
          => /\ Len(futures) = Len(compile_items)
             /\ \A w \in DOMAIN futures : futures[w] \in {"done", "raised"}
    /\ compile_pc = "returned"
          => \A i \in DOMAIN compile_items :
                item_elf[i] = Some([elf_of |-> compile_items[i]])
    /\ \A write \in elf_writes : write[1] = write[2]
    /\ (CompileLeft /\ \E w \in DOMAIN futures : futures[w] = "raised")
          => compile_pc = "LabOneQControllerException"

\* three items on two devices compiled by a pool of two threads: the second
\* worker has raised, the others have set the elf of their items, and
\* _awg_compile has raised
C40_Witness ==
    /\ compile_pc = "LabOneQControllerException"
    /\ max_workers = Some(2)
    /\ futures = <<"done", "raised", "done">>
    /\ compile_items[1].device # compile_items[3].device
    /\ item_elf[2] = None
    /\ item_elf[3] # None

====
